---- MODULE Spec2Model ----
(***************************************************************************)
(* Hybrid retrieval-and-ranking engine of the Arabic legal Q&A service:    *)
(* text normalisation, the highlighter, score fusion, the two access       *)
(* gates and the /ask orchestration around search().                       *)
(*                                                                         *)
(* Conventions.                                                            *)
(*  - A Python str is a sequence of one-character strings.  ASCII          *)
(*    characters stand for themselves; every other character is written    *)
(*    as its code point, e.g. "U+0623".                                    *)
(*  - A Python list / numpy array is a sequence; Python subscripts are     *)
(*    0-based, so element i of the code is s[i + 1] here (At, PyAt).       *)
(*  - Raw scores are integers (multiples of the epsilon 1e-9 of            *)
(*    minmax_norm); normalised and fused scores are exact fractions kept   *)
(*    as numerators over a common denominator.                             *)
(***************************************************************************)
EXTENDS Integers, Sequences, FiniteSets, TLC

\* ------------------------------------------------------------------------
\* Bounds of the model
\* ------------------------------------------------------------------------

\* number of chunks in the collection (indices.meta)
NChunks == 3

\* largest topk a request asks for
MaxTopK == 2

\* longest excerpt handed to highlight_text on its own
MaxTextLen == 4

\* longest string handed to the functions of normalize.py on their own
MaxStrLen == 3

\* ------------------------------------------------------------------------
\* Sequences and Python built-ins
\* ------------------------------------------------------------------------

Range(s) == {s[i] : i \in DOMAIN s}

Min(a, b) == IF a < b THEN a ELSE b

Max(a, b) == IF a > b THEN a ELSE b

\* s[i] of a 0-based Python list
At(s, i) == s[i + 1]

\* s[i] with Python's negative subscripts (s[-1] is the last element)
PyAt(s, i) == IF i < 0 THEN s[Len(s) + i + 1] ELSE s[i + 1]

\* s[:k], also for a negative k
Take(s, k) ==
    IF k >= 0 THEN SubSeq(s, 1, Min(k, Len(s)))
    ELSE SubSeq(s, 1, Max(0, Len(s) + k))

\* s[k:] for k >= 0
Drop(s, k) == SubSeq(s, Min(k, Len(s)) + 1, Len(s))

\* s[i:j] for 0 <= i, j
Slice(s, i, j) == SubSeq(s, Min(i, Len(s)) + 1, Min(j, Len(s)))

\* s[::-1]
Reverse(s) == [p \in 1..Len(s) |-> s[Len(s) + 1 - p]]

\* `needle in hay` on strings
Contains(hay, needle) ==
    \E i \in 0..(Len(hay) - Len(needle)) :
        SubSeq(hay, i + 1, i + Len(needle)) = needle

\* list.index(x): the first position (0-based) holding x
IndexOf(s, x) == (CHOOSE p \in 1..Len(s) : s[p] = x /\ \A q \in 1..(p - 1) : s[q] # x) - 1

\* all strings over an alphabet up to a length
AllStrings(A, n) == UNION {[1..k -> A] : k \in 0..n}

UpperLetters ==
    << "A", "B", "C", "D", "E", "F", "G", "H", "I", "J", "K", "L", "M",
       "N", "O", "P", "Q", "R", "S", "T", "U", "V", "W", "X", "Y", "Z" >>

LowerLetters ==
    << "a", "b", "c", "d", "e", "f", "g", "h", "i", "j", "k", "l", "m",
       "n", "o", "p", "q", "r", "s", "t", "u", "v", "w", "x", "y", "z" >>

AsciiDigits == << "0", "1", "2", "3", "4", "5", "6", "7", "8", "9" >>

\* str.lower() on one character (ASCII letters; Arabic script has no case)
LowerChar(c) ==
    IF \E i \in DOMAIN UpperLetters : UpperLetters[i] = c
    THEN LowerLetters[CHOOSE i \in DOMAIN UpperLetters : UpperLetters[i] = c]
    ELSE c

\* str.lower()
Lower(s) == [i \in DOMAIN s |-> LowerChar(s[i])]

WhiteSpace == {" ", "\n", "\t"}

\* str.strip()
RECURSIVE LStrip(_)
LStrip(s) ==
    IF s # <<>> /\ Head(s) \in WhiteSpace THEN LStrip(Tail(s)) ELSE s

RECURSIVE RStrip(_)
RStrip(s) ==
    IF s # <<>> /\ s[Len(s)] \in WhiteSpace
    THEN RStrip(SubSeq(s, 1, Len(s) - 1)) ELSE s

Strip(s) == RStrip(LStrip(s))

\* str.split(): the maximal runs of non-whitespace characters
RECURSIVE SplitFrom(_, _)
SplitFrom(s, cur) ==
    IF s = <<>> THEN (IF cur = <<>> THEN <<>> ELSE <<cur>>)
    ELSE IF Head(s) \in WhiteSpace
         THEN (IF cur = <<>> THEN <<>> ELSE <<cur>>) \o SplitFrom(Tail(s), <<>>)
         ELSE SplitFrom(Tail(s), Append(cur, Head(s)))

Split(s) == SplitFrom(s, <<>>)

\* str.replace of one character by a string
ReplaceChar(s, c, r) ==
    IF s = <<>> THEN <<>>
    ELSE LET F[i \in 0..Len(s)] ==
                 IF i = 0 THEN <<>>
                 ELSE F[i - 1] \o (IF s[i] = c THEN r ELSE <<s[i]>>)
         IN F[Len(s)]

\* the lists of a list joined in their order, as a loop that extends one
\* list with each of them leaves it (halved, so that long lists are not
\* deep)
RECURSIVE Flatten(_)
Flatten(ss) ==
    IF ss = <<>> THEN <<>>
    ELSE IF Len(ss) = 1 THEN ss[1]
    ELSE LET half == Len(ss) \div 2
         IN Flatten(SubSeq(ss, 1, half)) \o Flatten(SubSeq(ss, half + 1, Len(ss)))

\* ------------------------------------------------------------------------
\* app/normalize.py
\* ------------------------------------------------------------------------

\* _DIAC: the code points U+0617..U+061A and U+064B..U+0652
_DIAC ==
    { "U+0617", "U+0618", "U+0619", "U+061A",
      "U+064B", "U+064C", "U+064D", "U+064E", "U+064F", "U+0650",
      "U+0651", "U+0652" }

TATWEEL == "U+0640"

\* what normalize_ar leaves of one character
NormChar(c) ==
    IF c \in _DIAC THEN <<>>
    ELSE IF c = TATWEEL THEN <<>>
    ELSE IF c \in {"U+0623", "U+0625", "U+0622"} THEN <<"U+0627">>
    ELSE IF c = "U+0649" THEN <<"U+064A">>
    ELSE IF c = "U+0624" THEN <<"U+0648">>
    ELSE IF c = "U+0626" THEN <<"U+064A">>
    ELSE IF c = "U+060C" THEN <<",">>
    ELSE IF c = "U+061B" THEN <<";">>
    ELSE IF c = "U+061F" THEN <<"?">>
    ELSE IF c \in {"U+201C", "U+201D"} THEN <<"\"">>
    ELSE IF c = "U+2019" THEN <<"'">>
    ELSE <<c>>

\* a folding that is not finished in one pass: the hamza-alef becomes the
\* alef maqsura, which a second pass makes a ya
normalize_ar_chained(s) ==
    [i \in DOMAIN s |->
        IF s[i] = "U+0623" THEN "U+0649"
        ELSE IF s[i] = "U+0649" THEN "U+064A" ELSE s[i]]

normalize_ar(s) ==
    IF s = <<>> THEN <<>>
    ELSE LET F[i \in 0..Len(s)] ==
                 IF i = 0 THEN <<>> ELSE F[i - 1] \o NormChar(s[i])
         IN F[Len(s)]

\* _ARABIC_DIGITS and _EXT_ARABIC_DIGITS: U+0660..U+0669 and U+06F0..U+06F9
_ARABIC_DIGITS ==
    << "U+0660", "U+0661", "U+0662", "U+0663", "U+0664",
       "U+0665", "U+0666", "U+0667", "U+0668", "U+0669" >>

_EXT_ARABIC_DIGITS ==
    << "U+06F0", "U+06F1", "U+06F2", "U+06F3", "U+06F4",
       "U+06F5", "U+06F6", "U+06F7", "U+06F8", "U+06F9" >>

\* str.translate(trans) on one character
WesternDigit(c) ==
    IF \E i \in 1..10 : _ARABIC_DIGITS[i] = c
    THEN AsciiDigits[CHOOSE i \in 1..10 : _ARABIC_DIGITS[i] = c]
    ELSE IF \E i \in 1..10 : _EXT_ARABIC_DIGITS[i] = c
    THEN AsciiDigits[CHOOSE i \in 1..10 : _EXT_ARABIC_DIGITS[i] = c]
    ELSE c

\* the translation table without the update of line 22
to_western_digits_arabic_only(s) ==
    [i \in DOMAIN s |->
        IF \E d \in 1..10 : _ARABIC_DIGITS[d] = s[i]
        THEN AsciiDigits[CHOOSE d \in 1..10 : _ARABIC_DIGITS[d] = s[i]]
        ELSE s[i]]

to_western_digits(s) == [i \in DOMAIN s |-> WesternDigit(s[i])]

\* the class [\u0621-\u064A0-9] of tokenize_ar's pattern
TokenChars ==
    { "U+0621", "U+0622", "U+0623", "U+0624", "U+0625", "U+0626", "U+0627", "U+0628",
      "U+0629", "U+062A", "U+062B", "U+062C", "U+062D", "U+062E", "U+062F", "U+0630",
      "U+0631", "U+0632", "U+0633", "U+0634", "U+0635", "U+0636", "U+0637", "U+0638",
      "U+0639", "U+063A", "U+063B", "U+063C", "U+063D", "U+063E", "U+063F", "U+0640",
      "U+0641", "U+0642", "U+0643", "U+0644", "U+0645", "U+0646", "U+0647", "U+0648",
      "U+0649", "U+064A" }
    \cup Range(AsciiDigits)

\* re.findall of the pattern: the maximal runs of token characters
RECURSIVE FindAllTokens(_, _)
FindAllTokens(s, cur) ==
    IF s = <<>> THEN (IF cur = <<>> THEN <<>> ELSE <<cur>>)
    ELSE IF Head(s) \in TokenChars
         THEN FindAllTokens(Tail(s), Append(cur, Head(s)))
         ELSE (IF cur = <<>> THEN <<>> ELSE <<cur>>) \o FindAllTokens(Tail(s), <<>>)

tokenize_ar(s) == FindAllTokens(normalize_ar(to_western_digits(s)), <<>>)

\* ------------------------------------------------------------------------
\* app/auth.py
\* ------------------------------------------------------------------------

ROLE_HIERARCHY ==
    [ admin |-> <<"admin", "legal", "staff">>,
      legal |-> <<"legal", "staff">>,
      staff |-> <<"staff">> ]

\* the effective role set (the code returns it as a list in set order; the
\* callers use it only through set() and its truth value)
get_effective_roles(user_roles) ==
    UNION { Range(ROLE_HIERARCHY[role]) :
              role \in {r \in Range(user_roles) : r \in DOMAIN ROLE_HIERARCHY} }

RestrictedWord == << "r", "e", "s", "t", "r", "i", "c", "t", "e", "d" >>

\* check_file_access without the lower(): the name is matched as written
check_file_access_cased(user_roles, doc_id) ==
    IF Contains(doc_id, RestrictedWord)
    THEN (Range(user_roles) \cap {"legal", "admin"}) # {}
    ELSE TRUE

allowed_roles == {"legal", "admin"}

check_file_access(user_roles, doc_id) ==
    IF Contains(Lower(doc_id), RestrictedWord)
    THEN (Range(user_roles) \cap allowed_roles) # {}
    ELSE TRUE

RECURSIVE filter_documents_by_access(_, _)
filter_documents_by_access(user_roles, documents) ==
    IF documents = <<>> THEN <<>>
    ELSE (IF check_file_access(user_roles, Head(documents).doc_id)
          THEN <<Head(documents)>> ELSE <<>>)
         \o filter_documents_by_access(user_roles, Tail(documents))

\* ------------------------------------------------------------------------
\* app/retrieval.py: highlight_text
\* ------------------------------------------------------------------------

\* \w of Python's re on str: alphanumerics and the underscore.  Arabic
\* letters and the tatweel are word characters, the diacritics are not.
IsWordChar(c) ==
    \/ c \in Range(UpperLetters) \cup Range(LowerLetters) \cup Range(AsciiDigits)
    \/ c = "_"
    \/ c \in { "U+0622", "U+0623", "U+0624", "U+0625", "U+0626", "U+0627",
               "U+0628", "U+0648", "U+0649", "U+064A", "U+0640" }

\* \b at offset i of text
WordBoundary(text, i) ==
    LET before == i >= 1 /\ i <= Len(text) /\ IsWordChar(text[i])
        after  == i + 1 <= Len(text) /\ IsWordChar(text[i + 1])
    IN before # after

\* the pattern re.escape(term), or \b re.escape(term) \b, under
\* re.IGNORECASE, tried at offset p of text
MatchAt(text, term, wb, p) ==
    /\ p + Len(term) <= Len(text)
    /\ \A k \in 1..Len(term) : LowerChar(text[p + k]) = LowerChar(term[k])
    /\ wb => (WordBoundary(text, p) /\ WordBoundary(text, p + Len(term)))

\* pattern.finditer(text): the leftmost non-overlapping matches, as
\* (start, end) pairs; term is not empty
RECURSIVE FindIterFrom(_, _, _, _)
FindIterFrom(text, term, wb, p) ==
    IF p + Len(term) > Len(text) THEN <<>>
    ELSE IF MatchAt(text, term, wb, p)
         THEN <<[s |-> p, e |-> p + Len(term)]>>
              \o FindIterFrom(text, term, wb, p + Len(term))
         ELSE FindIterFrom(text, term, wb, p + 1)

FindIter(text, term, wb) == FindIterFrom(text, term, wb, 0)

\* lines 42-48: what one term adds to the cleaned list: the stripped
\* term, and the words of a compound term
clean_term(term) ==
    IF term # <<>> /\ Len(Strip(term)) > 1
    THEN <<Strip(term)>>
         \o (IF Len(Strip(term)) > 4 /\ Len(Split(term)) > 1
             THEN SelectSeq(Split(term), LAMBDA w : Len(w) > 2)
             ELSE <<>>)
    ELSE <<>>

\* lines 40-48 and 50-58: the cleaned term list
clean_terms(terms) == Flatten([q \in DOMAIN terms |-> clean_term(terms[q])])

\* The iteration order of a set of str is fixed by the process's string
\* hash seed (PYTHONHASHSEED): HashSeeds are the seeds of the model, and
\* under each a set is iterated in one fixed total order of strings.
HashSeeds == {"fwd", "rev"}

\* the characters of the model in the order of their code points
CodePoints ==
    << " ", "0", "1", "2", "3", "4", "5", "6",
      "7", "8", "9", "A", "B", "C", "D", "E",
      "F", "G", "H", "I", "J", "K", "L", "M",
      "N", "O", "P", "Q", "R", "S", "T", "U",
      "V", "W", "X", "Y", "Z", "a", "b", "c",
      "d", "e", "f", "g", "h", "i", "j", "k",
      "l", "m", "n", "o", "p", "q", "r", "s",
      "t", "u", "v", "w", "x", "y", "z", "U+0617",
      "U+0618", "U+0619", "U+061A", "U+0621", "U+0622", "U+0623", "U+0624", "U+0625",
      "U+0626", "U+0627", "U+0628", "U+0629", "U+062A", "U+062B", "U+062C", "U+062D",
      "U+062E", "U+062F", "U+0630", "U+0631", "U+0632", "U+0633", "U+0634", "U+0635",
      "U+0636", "U+0637", "U+0638", "U+0639", "U+063A", "U+063B", "U+063C", "U+063D",
      "U+063E", "U+063F", "U+0640", "U+0641", "U+0642", "U+0643", "U+0644", "U+0645",
      "U+0646", "U+0647", "U+0648", "U+0649", "U+064A", "U+064B", "U+064C", "U+064D",
      "U+064E", "U+064F", "U+0650", "U+0651", "U+0652", "U+0660", "U+0661", "U+0662",
      "U+0663", "U+0664", "U+0665", "U+0666", "U+0667", "U+0668", "U+0669", "U+06F0",
      "U+06F1", "U+06F2", "U+06F3", "U+06F4", "U+06F5", "U+06F6", "U+06F7", "U+06F8",
      "U+06F9" >>

CodeOf ==
    [c \in Range(CodePoints) |-> CHOOSE i \in DOMAIN CodePoints : CodePoints[i] = c]

CharCode(c) == IF c \in DOMAIN CodeOf THEN CodeOf[c] ELSE 0

RECURSIVE LexLess(_, _)
LexLess(u, t) ==
    IF u = <<>> THEN t # <<>>
    ELSE IF t = <<>> THEN FALSE
    ELSE IF CharCode(Head(u)) # CharCode(Head(t))
         THEN CharCode(Head(u)) < CharCode(Head(t))
         ELSE LexLess(Tail(u), Tail(t))

HashBefore(u, t, seed) == IF seed = "fwd" THEN LexLess(u, t) ELSE LexLess(t, u)

\* sorted(set(terms), key=len, reverse=True): the set in its iteration
\* order, stably sorted by decreasing length
sorted_term_set(terms, seed) ==
    LET S == Range(terms)
        Before(u, t) == Len(u) > Len(t) \/ (Len(u) = Len(t) /\ HashBefore(u, t, seed))
        rank == [t \in S |-> Cardinality({u \in S : Before(u, t)})]
    IN [p \in 1..Cardinality(S) |-> CHOOSE t \in S : rank[t] = p - 1]

\* lines 66-73 and 93-100: the matches of a term, those of the plain
\* pattern and then those of the word-boundary pattern, each with the
\* text matched
term_matches(text, term) ==
    LET found == FindIter(text, term, FALSE) \o FindIter(text, term, TRUE)
    IN [q \in DOMAIN found |->
           [s |-> found[q].s, e |-> found[q].e,
            w |-> Slice(text, found[q].s, found[q].e)]]

\* lines 77-79 and 108-111: a match is appended unless its (start, end) is
\* recorded already, so of the matches in the order the loops meet them
\* the first of each (start, end) stays
add_positions(matches) ==
    LET first(q) == \A r \in 1..(q - 1) :
                        ~(matches[r].s = matches[q].s /\ matches[r].e = matches[q].e)
        kept == SelectSeq([q \in DOMAIN matches |-> q], first)
    IN [p \in DOMAIN kept |-> matches[kept[p]]]

\* lines 60-81: first pass, over the terms in sorted order
yellow_pass(text, terms) ==
    add_positions(Flatten([q \in DOMAIN terms |->
        IF Strip(terms[q]) = <<>> THEN <<>> ELSE term_matches(text, terms[q])]))

yellow_positions_of(text, all_yellow_terms, seed) ==
    yellow_pass(text, sorted_term_set(all_yellow_terms, seed))

Overlaps(a, b) == a.s < b.e /\ a.e > b.s

\* lines 86-90: the term is blank or equal, normalized, to a yellow term
green_skip(term, all_yellow_terms) ==
    \/ Strip(term) = <<>>
    \/ \E y \in DOMAIN all_yellow_terms :
           normalize_ar(term) = normalize_ar(all_yellow_terms[y])

\* the second pass without the test of line 104
add_green_unchecked(matches, yellow) == matches

\* lines 103-105: the matches that overlap no yellow position
add_green(matches, yellow) ==
    SelectSeq(matches, LAMBDA m : ~\E y \in DOMAIN yellow : Overlaps(m, yellow[y]))

\* lines 83-113: second pass
green_pass(text, terms, all_yellow_terms, yellow) ==
    add_positions(Flatten([q \in DOMAIN terms |->
        IF green_skip(terms[q], all_yellow_terms) THEN <<>>
        ELSE add_green(term_matches(text, terms[q]), yellow)]))

green_positions_of(text, all_yellow_terms, all_green_terms, yellow, seed) ==
    green_pass(text, sorted_term_set(all_green_terms, seed), all_yellow_terms,
               yellow)

\* common_terms[:10]
FallbackTerms == 10

\* lines 122-130 for one term and one i: the first match of every subterm
\* term[i:j], j = i+3 .. len(term)
RECURSIVE fallback_subterms(_, _, _, _)
fallback_subterms(text, term, i, j) ==
    IF j > Len(term) THEN <<>>
    ELSE LET found == FindIter(text, Slice(term, i, j), FALSE)
         IN (IF found = <<>> THEN <<>>
             ELSE <<[s |-> found[1].s, e |-> found[1].e,
                     w |-> Slice(text, found[1].s, found[1].e)]>>)
            \o fallback_subterms(text, term, i, j + 1)

\* lines 122-132: the i loop stops after the first i that found something
RECURSIVE fallback_term(_, _, _)
fallback_term(text, term, i) ==
    IF i >= Len(term) - 2 THEN <<>>
    ELSE LET got == fallback_subterms(text, term, i, i + 3)
         IN IF got # <<>> THEN got ELSE fallback_term(text, term, i + 1)

\* lines 119-134: the term loop stops after the first term that found
\* something
RECURSIVE fallback_terms(_, _)
fallback_terms(text, terms) ==
    IF terms = <<>> THEN <<>>
    ELSE LET got == IF Len(Head(terms)) > 3
                    THEN fallback_term(text, Head(terms), 0) ELSE <<>>
         IN IF got # <<>> THEN got ELSE fallback_terms(text, Tail(terms))

\* lines 115-134: the green positions after the fallback
fallback_positions(text, all_yellow_terms, all_green_terms, yellow, green) ==
    IF yellow = <<>> /\ green = <<>>
    THEN fallback_terms(text, Take(all_yellow_terms \o all_green_terms, FallbackTerms))
    ELSE green

\* lines 137-143: the replacement of each position.  A marker is written
\* as the symbols "<mark:Y title=" / "<mark:G title=", the found word,
\* ">", the found word again, "</mark>".
OpenTag(cls) == IF cls = "Y" THEN "<mark:Y title=" ELSE "<mark:G title="

Replacement(cls, found_word) ==
    <<OpenTag(cls)>> \o found_word \o <<">">> \o found_word \o <<"</mark>">>

all_highlights_of(yellow, green) ==
    [q \in 1..Len(yellow) |->
        [s |-> yellow[q].s, e |-> yellow[q].e, cls |-> "Y", w |-> yellow[q].w,
         r |-> Replacement("Y", yellow[q].w)]]
    \o
    [q \in 1..Len(green) |->
        [s |-> green[q].s, e |-> green[q].e, cls |-> "G", w |-> green[q].w,
         r |-> Replacement("G", green[q].w)]]

\* sorted(seq, key=..., reverse=True) of Python, keys[q] the key of seq[q]:
\* stable, so equal keys keep their order
\* sorted without reverse=True: smallest key first, equal keys in their order
StableSortAsc(seq, keys) ==
    LET n == Len(seq)
        rank(q) == Cardinality({x \in 1..n :
                        \/ keys[x] < keys[q]
                        \/ (keys[x] = keys[q] /\ x < q)})
    IN [p \in 1..n |-> seq[CHOOSE q \in 1..n : rank(q) = p - 1]]

StableSortDesc(seq, keys) ==
    LET n == Len(seq)
        rank(q) == Cardinality({x \in 1..n :
                        \/ keys[x] > keys[q]
                        \/ (keys[x] = keys[q] /\ x < q)})
    IN [p \in 1..n |-> seq[CHOOSE q \in 1..n : rank(q) = p - 1]]

\* the overlap test left out: every highlight is kept
keep_all(todo, kept) == kept \o todo

\* lines 148-151: a highlight is kept when it overlaps none kept so far
RECURSIVE keep_non_overlapping(_, _)
keep_non_overlapping(todo, kept) ==
    IF todo = <<>> THEN kept
    ELSE LET h == Head(todo)
             overlaps == \E f \in DOMAIN kept : Overlaps(h, kept[f])
         IN keep_non_overlapping(Tail(todo), IF overlaps THEN kept ELSE Append(kept, h))

SpanLen(h) == h.e - h.s

SpanStart(h) == h.s

\* lines 145-154: overlapping highlights removed, longer ones first, then
\* sorted by start, last first
filtered_highlights_of(all_highlights) ==
    LET by_length == StableSortDesc(all_highlights,
                         [q \in DOMAIN all_highlights |-> SpanLen(all_highlights[q])])
        kept == keep_non_overlapping(by_length, <<>>)
    IN StableSortDesc(kept, [q \in DOMAIN kept |-> SpanStart(kept[q])])

\* the replacements applied first span first: the offsets of the later
\* spans are those of the text before the earlier replacements
RECURSIVE apply_ascending(_, _)
apply_ascending(result, highlights) ==
    IF highlights = <<>> THEN result
    ELSE LET h == highlights[Len(highlights)]
         IN apply_ascending(Take(result, h.s) \o h.r \o Drop(result, h.e),
                            SubSeq(highlights, 1, Len(highlights) - 1))

\* lines 156-161: the replacements applied to the result, one after the
\* other
RECURSIVE apply_highlights(_, _)
apply_highlights(result, highlights) ==
    IF highlights = <<>> THEN result
    ELSE LET h == Head(highlights)
         IN apply_highlights(Take(result, h.s) \o h.r \o Drop(result, h.e),
                             Tail(highlights))

highlight_text(text, yellow_terms, green_terms, seed) ==
    LET all_yellow_terms == clean_terms(yellow_terms)
        all_green_terms  == clean_terms(green_terms)
        yellow == yellow_positions_of(text, all_yellow_terms, seed)
        green0 == green_positions_of(text, all_yellow_terms, all_green_terms, yellow, seed)
        green  == fallback_positions(text, all_yellow_terms, all_green_terms, yellow, green0)
    IN apply_highlights(text, filtered_highlights_of(all_highlights_of(yellow, green)))

\* ------------------------------------------------------------------------
\* app/retrieval.py: load_glossary, expand_terms_from_glossary
\* A glossary is the sequence of its entries [main, syns] in the order of
\* the file, the order in which dict.items() gives them.
\* ------------------------------------------------------------------------

\* lines 164-168: the mapping of the file, {} when there is no file
load_glossary(file) == IF file = "absent" THEN <<>> ELSE file

\* line 175
original_query_of(query) == Lower(Strip(query))

\* lines 184-188
main_term_matches(query, main_term) ==
    \E token \in Range(tokenize_ar(query)) :
        \/ Contains(normalize_ar(main_term), token)
        \/ Contains(normalize_ar(query), normalize_ar(main_term))
        \/ Contains(Lower(main_term), token)
        \/ Contains(original_query_of(query), Lower(main_term))

\* lines 190-195
synonym_matches(query, synonyms) ==
    \E q \in DOMAIN synonyms : \E token \in Range(tokenize_ar(query)) :
        \/ Contains(normalize_ar(synonyms[q]), token)
        \/ Contains(token, normalize_ar(synonyms[q]))
        \/ Contains(Lower(synonyms[q]), token)
        \/ Contains(original_query_of(query), Lower(synonyms[q]))

\* lines 198-204
partial_matches(query, main_term, synonyms) ==
    LET original_query == original_query_of(query)
    IN /\ Len(original_query) > 4
       /\ \/ Contains(Lower(main_term), original_query)
          \/ Contains(original_query, Lower(main_term))
          \/ \E q \in DOMAIN synonyms :
                 /\ Len(synonyms[q]) > 3
                 /\ \/ Contains(Lower(synonyms[q]), original_query)
                    \/ Contains(original_query, Lower(synonyms[q]))

\* line 206
entry_matches(query, entry) ==
    \/ main_term_matches(query, entry.main)
    \/ synonym_matches(query, entry.syns)
    \/ partial_matches(query, entry.main, entry.syns)

\* [word for word in term.split() if len(word) > 2] when ' ' in term
word_parts(term) ==
    IF " " \in Range(term)
    THEN SelectSeq(Split(term), LAMBDA word : Len(word) > 2)
    ELSE <<>>

\* lines 214-216: the word parts of the synonyms, in the order of the
\* synonyms (the list is halved so that long lists are not deep)
RECURSIVE synonym_word_parts(_)
synonym_word_parts(synonyms) ==
    IF synonyms = <<>> THEN <<>>
    ELSE IF Len(synonyms) = 1 THEN word_parts(synonyms[1])
    ELSE LET half == Len(synonyms) \div 2
         IN synonym_word_parts(SubSeq(synonyms, 1, half))
            \o synonym_word_parts(SubSeq(synonyms, half + 1, Len(synonyms)))

\* lines 208-216: what a matching entry adds to expanded
entry_terms(entry) ==
    <<entry.main>> \o entry.syns \o word_parts(entry.main)
    \o synonym_word_parts(entry.syns)

\* lines 179-216
RECURSIVE glossary_expanded(_, _)
glossary_expanded(query, glossary) ==
    IF glossary = <<>> THEN <<>>
    ELSE (IF entry_matches(query, Head(glossary))
          THEN entry_terms(Head(glossary)) ELSE <<>>)
         \o glossary_expanded(query, Tail(glossary))

\* lines 219-237
common_legal_terms ==
    << [key |-> <<"t", "r", "e", "a", "t", "y">>,
        syns |-> <<
            <<"U+0627", "U+062A", "U+0641", "U+0627", "U+0642", "U+064A", "U+0629">>,
            <<"U+0645", "U+0639", "U+0627", "U+0647", "U+062F", "U+0629">>,
            <<"U+0627", "U+062A", "U+0641", "U+0627", "U+0642">>,
            <<"U+0645", "U+064A", "U+062B", "U+0627", "U+0642">>,
            <<"U+0639", "U+0642", "U+062F">> >>],
       [key |-> <<"a", "g", "r", "e", "e", "m", "e", "n", "t">>,
        syns |-> <<
            <<"U+0627", "U+062A", "U+0641", "U+0627", "U+0642", "U+064A", "U+0629">>,
            <<"U+0627", "U+062A", "U+0641", "U+0627", "U+0642">>,
            <<"U+0645", "U+0639", "U+0627", "U+0647", "U+062F", "U+0629">>,
            <<"U+0639", "U+0642", "U+062F">> >>],
       [key |-> <<"o", "b", "l", "i", "g", "a", "t", "i", "o", "n">>,
        syns |-> <<
            <<"U+0627", "U+0644", "U+062A", "U+0632", "U+0627", "U+0645">>,
            <<"U+0627", "U+0644", "U+062A", "U+0632", "U+0627", "U+0645", "U+0627", "U+062A">>,
            <<"U+0648", "U+0627", "U+062C", "U+0628">>,
            <<"U+0648", "U+0627", "U+062C", "U+0628", "U+0627", "U+062A">> >>],
       [key |-> <<"r", "e", "s", "p", "o", "n", "s", "i", "b", "i", "l", "i", "t", "y">>,
        syns |-> <<
            <<"U+0645", "U+0633", "U+0624", "U+0648", "U+0644", "U+064A", "U+0629">>,
            <<"U+0645", "U+0633", "U+0624", "U+0648", "U+0644", "U+064A", "U+0627", "U+062A">> >>],
       [key |-> <<"c", "o", "m", "p", "e", "n", "s", "a", "t", "i", "o", "n">>,
        syns |-> <<
            <<"U+062A", "U+0639", "U+0648", "U+064A", "U+0636">>,
            <<"U+062A", "U+0639", "U+0648", "U+064A", "U+0636", "U+0627", "U+062A">> >>],
       [key |-> <<"l", "i", "c", "e", "n", "s", "e">>,
        syns |-> <<
            <<"U+062A", "U+0631", "U+062E", "U+064A", "U+0635">>,
            <<"U+062A", "U+0631", "U+0627", "U+062E", "U+064A", "U+0635">>,
            <<"U+0631", "U+062E", "U+0635", "U+0629">>,
            <<"U+0625", "U+0630", "U+0646">> >>],
       [key |-> <<"n", "u", "c", "l", "e", "a", "r">>,
        syns |-> <<
            <<"U+0646", "U+0648", "U+0648", "U+064A">>,
            <<"U+0630", "U+0631", "U+064A">>,
            <<"U+0646", "U+0648", "U+0648", "U+064A", "U+0629">>,
            <<"U+0630", "U+0631", "U+064A", "U+0629">> >>],
       [key |-> <<"r", "a", "d", "i", "a", "t", "i", "o", "n">>,
        syns |-> <<
            <<"U+0625", "U+0634", "U+0639", "U+0627", "U+0639">>,
            <<"U+0625", "U+0634", "U+0639", "U+0627", "U+0639", "U+064A">>,
            <<"U+0625", "U+0634", "U+0639", "U+0627", "U+0639", "U+064A", "U+0629">> >>],
       [key |-> <<"s", "a", "f", "e", "t", "y">>,
        syns |-> <<
            <<"U+0623", "U+0645", "U+0627", "U+0646">>,
            <<"U+0623", "U+0645", "U+0646">>,
            <<"U+0633", "U+0644", "U+0627", "U+0645", "U+0629">> >>],
       [key |-> <<"a", "u", "t", "h", "o", "r", "i", "t", "y">>,
        syns |-> <<
            <<"U+0647", "U+064A", "U+0626", "U+0629">>,
            <<"U+0633", "U+0644", "U+0637", "U+0629">>,
            <<"U+062C", "U+0647", "U+0629">> >>],
       [key |-> <<"r", "e", "g", "u", "l", "a", "t", "i", "o", "n">>,
        syns |-> <<
            <<"U+0646", "U+0638", "U+0627", "U+0645">>,
            <<"U+0644", "U+0627", "U+0626", "U+062D", "U+0629">>,
            <<"U+062A", "U+0646", "U+0638", "U+064A", "U+0645">> >>],
       [key |-> <<"U+0627", "U+062A", "U+0641", "U+0627", "U+0642", "U+064A", "U+0629">>,
        syns |-> <<
            <<"t", "r", "e", "a", "t", "y">>,
            <<"a", "g", "r", "e", "e", "m", "e", "n", "t">>,
            <<"U+0645", "U+0639", "U+0627", "U+0647", "U+062F", "U+0629">>,
            <<"U+0627", "U+062A", "U+0641", "U+0627", "U+0642">>,
            <<"U+0639", "U+0642", "U+062F">> >>],
       [key |-> <<"U+0627", "U+0644", "U+062A", "U+0632", "U+0627", "U+0645">>,
        syns |-> <<
            <<"o", "b", "l", "i", "g", "a", "t", "i", "o", "n">>,
            <<"U+0648", "U+0627", "U+062C", "U+0628">>,
            <<"U+0627", "U+0644", "U+062A", "U+0632", "U+0627", "U+0645", "U+0627", "U+062A">> >>],
       [key |-> <<"U+0645", "U+0633", "U+0624", "U+0648", "U+0644", "U+064A", "U+0629">>,
        syns |-> <<
            <<"r", "e", "s", "p", "o", "n", "s", "i", "b", "i", "l", "i", "t", "y">>,
            <<"U+0645", "U+0633", "U+0624", "U+0648", "U+0644", "U+064A", "U+0627", "U+062A">> >>],
       [key |-> <<"U+062A", "U+0631", "U+062E", "U+064A", "U+0635">>,
        syns |-> <<
            <<"l", "i", "c", "e", "n", "s", "e">>,
            <<"U+0631", "U+062E", "U+0635", "U+0629">>,
            <<"U+0625", "U+0630", "U+0646">>,
            <<"U+062A", "U+0631", "U+0627", "U+062E", "U+064A", "U+0635">> >>],
       [key |-> <<"U+0646", "U+0648", "U+0648", "U+064A">>,
        syns |-> <<
            <<"n", "u", "c", "l", "e", "a", "r">>,
            <<"U+0630", "U+0631", "U+064A">>,
            <<"U+0646", "U+0648", "U+0648", "U+064A", "U+0629">> >>],
       [key |-> <<"U+0647", "U+064A", "U+0626", "U+0629">>,
        syns |-> <<
            <<"a", "u", "t", "h", "o", "r", "i", "t", "y">>,
            <<"U+0633", "U+0644", "U+0637", "U+0629">>,
            <<"U+062C", "U+0647", "U+0629">> >>] >>

\* lines 241-242
common_term_matches(query, term_key) ==
    \/ Contains(original_query_of(query), Lower(term_key))
    \/ Contains(Lower(term_key), original_query_of(query))
    \/ \E token \in Range(tokenize_ar(query)) : Contains(Lower(term_key), token)

\* lines 240-243
RECURSIVE common_expanded(_, _)
common_expanded(query, table) ==
    IF table = <<>> THEN <<>>
    ELSE (IF common_term_matches(query, Head(table).key)
          THEN Head(table).syns ELSE <<>>)
         \o common_expanded(query, Tail(table))

\* the stripped terms longer than one character, repeats kept
stripped_expanded(expanded) ==
    SelectSeq([i \in DOMAIN expanded |-> Strip(expanded[i])],
              LAMBDA term_clean : Len(term_clean) > 1)

\* lines 246-250: the stripped terms longer than one character, each at
\* its first occurrence
unique_expanded(expanded) ==
    LET term_clean == [i \in DOMAIN expanded |-> Strip(expanded[i])]
        first(i) == /\ Len(term_clean[i]) > 1
                    /\ \A j \in 1..(i - 1) : term_clean[j] # term_clean[i]
        kept == SelectSeq([i \in DOMAIN expanded |-> i], first)
    IN [p \in DOMAIN kept |-> term_clean[kept[p]]]

\* line 253: unique_expanded[:50]
ExpansionCap == 50

expand_terms_from_glossary(query, glossary) ==
    Take(unique_expanded(glossary_expanded(query, glossary)
                         \o common_expanded(query, common_legal_terms)),
         ExpansionCap)

\* ------------------------------------------------------------------------
\* app/retrieval.py: search, lines 261-291: the terms to highlight
\* ------------------------------------------------------------------------

\* list(S) of a set of str: the set in its iteration order
list_of_str_set(S, seed) ==
    LET rank == [t \in S |-> Cardinality({u \in S : HashBefore(u, t, seed)})]
    IN [p \in 1..Cardinality(S) |-> CHOOSE t \in S : rank[t] = p - 1]

\* re.match(r'^[a-zA-Z\s]+$', s)
IsLatin(s) ==
    /\ s # <<>>
    /\ \A i \in DOMAIN s :
           s[i] \in Range(UpperLetters) \cup Range(LowerLetters) \cup WhiteSpace

\* the characters of the model in U+0600..U+06FF
ArabicBlock ==
    {c \in Range(CodePoints) : CharCode(c) > CharCode("z")}
    \cup {"U+060C", "U+061B", "U+061F"}

\* re.match(r'^[\u0600-\u06FF\s]+$', s)
IsArabic(s) ==
    /\ s # <<>>
    /\ \A i \in DOMAIN s : s[i] \in ArabicBlock \cup WhiteSpace

\* lines 277-281: the entries with a Latin-script synonym that holds the
\* query or is held by it give their main term and all their synonyms
RECURSIVE english_cross_terms(_, _)
english_cross_terms(english_query, glossary) ==
    IF glossary = <<>> THEN <<>>
    ELSE LET entry == Head(glossary)
             hit == \E q \in DOMAIN entry.syns :
                        /\ IsLatin(entry.syns[q])
                        /\ \/ Contains(Lower(entry.syns[q]), english_query)
                           \/ Contains(english_query, Lower(entry.syns[q]))
         IN (IF hit THEN <<entry.main>> \o entry.syns ELSE <<>>)
            \o english_cross_terms(english_query, Tail(glossary))

\* lines 286-291: the entries whose main term or a synonym holds the query
\* or is held by it give their Latin-script synonyms
RECURSIVE arabic_cross_terms(_, _)
arabic_cross_terms(original_query, glossary) ==
    IF glossary = <<>> THEN <<>>
    ELSE LET entry == Head(glossary)
             hit == \/ Contains(entry.main, original_query)
                    \/ Contains(original_query, entry.main)
                    \/ \E q \in DOMAIN entry.syns :
                           \/ Contains(entry.syns[q], original_query)
                           \/ Contains(original_query, entry.syns[q])
         IN (IF hit THEN SelectSeq(entry.syns, IsLatin) ELSE <<>>)
            \o arabic_cross_terms(original_query, Tail(glossary))

\* lines 272-291
yellow_terms_of(query, q_tokens_, glossary_, seed) ==
    LET original_query == Strip(query)
        direct == list_of_str_set(Range(q_tokens_) \cup {original_query}, seed)
    IN IF IsLatin(original_query)
       THEN direct \o english_cross_terms(Lower(original_query), glossary_)
       ELSE IF IsArabic(original_query)
       THEN direct \o arabic_cross_terms(original_query, glossary_)
       ELSE direct

\* ------------------------------------------------------------------------
\* app/retrieval.py: minmax_norm and the score fusion of search
\* ------------------------------------------------------------------------

\* the epsilon 1e-9 of minmax_norm, in units of raw score
EpsUnits == 1

\* The score faiss gives the -1 entries it pads a result with when fewer
\* than k vectors exist: the lowest float, about -3.4e38.  Next to it every
\* real score is absorbed by rounding (x - PadScore = -PadScore).
PadScore == -1000000

\* denominator of alpha: alpha = alpha_num / AlphaDen, the default is 7/10
AlphaDen == 10

SeqMin(a) == CHOOSE x \in Range(a) : \A y \in Range(a) : x <= y

SeqMax(a) == CHOOSE x \in Range(a) : \A y \in Range(a) : x >= y

\* minmax_norm without the epsilon test: always divides by the span
minmax_norm_unguarded(a) ==
    IF Len(a) = 0 THEN [num |-> a, den |-> 1]
    ELSE [num |-> [j \in 1..Len(a) |-> a[j] - SeqMin(a)],
          den |-> SeqMax(a) - SeqMin(a)]

\* minmax_norm measuring from the maximum: (mx - a) / (mx - mn)
minmax_norm_inverted(a) ==
    IF Len(a) = 0 THEN [num |-> a, den |-> 1]
    ELSE LET mn == SeqMin(a)
             mx == SeqMax(a)
         IN IF mx - mn < EpsUnits
            THEN [num |-> [j \in 1..Len(a) |-> 0], den |-> 1]
            ELSE IF mn = PadScore
                 THEN [num |-> [j \in 1..Len(a) |-> IF a[j] = PadScore THEN 1 ELSE 0],
                       den |-> 1]
                 ELSE [num |-> [j \in 1..Len(a) |-> mx - a[j]], den |-> mx - mn]

\* minmax_norm(a) as exact fractions num[j] / den
minmax_norm(a) ==
    IF Len(a) = 0 THEN [num |-> a, den |-> 1]
    ELSE LET mn == SeqMin(a)
             mx == SeqMax(a)
         IN IF mx - mn < EpsUnits
            THEN [num |-> [j \in 1..Len(a) |-> 0], den |-> 1]
            ELSE IF mn = PadScore
                 THEN [num |-> [j \in 1..Len(a) |-> IF a[j] = PadScore THEN 0 ELSE 1],
                       den |-> 1]
                 ELSE [num |-> [j \in 1..Len(a) |-> a[j] - mn], den |-> mx - mn]

\* numpy's default sort is not stable: the order of equal keys is the
\* build's choice, the same in every call of one process.
SortKinds == {"stable", "unstable"}

ArgsortBefore(a, kind, i, j) ==
    \/ a[i + 1] < a[j + 1]
    \/ (a[i + 1] = a[j + 1] /\ (IF kind = "stable" THEN i < j ELSE i > j))

\* np.argsort(a): the 0-based positions of a in ascending order of value
argsort(a, kind) ==
    [p \in 1..Len(a) |->
        CHOOSE i \in 0..(Len(a) - 1) :
            Cardinality({j \in 0..(Len(a) - 1) : ArgsortBefore(a, kind, j, i)}) = p - 1]

\* line 295
bm25_ranks_of(scores, k, kind) == Take(Reverse(argsort(scores, kind)), k)

\* list(set of int): CPython iterates a small set of small ints in slot
\* order: hash(i) = i for i >= 0, and hash(-1) = -2 lands in the last but
\* one slot, after every chunk position of a small collection.
SlotBefore(y, x) ==
    \/ (y >= 0 /\ x < 0)
    \/ (y >= 0 /\ x >= 0 /\ y < x)
    \/ (y < 0 /\ x < 0 /\ y < x)

list_of_set(S) ==
    [p \in 1..Cardinality(S) |->
        CHOOSE x \in S : Cardinality({y \in S : SlotBefore(y, x)}) = p - 1]

\* line 303
cand_ids_of(bm25_ranks_, vec_ranks_) ==
    list_of_set(Range(bm25_ranks_) \cup Range(vec_ranks_))

\* line 304
bm_of(cand_ids_, bm25_scores_) ==
    [j \in 1..Len(cand_ids_) |-> PyAt(bm25_scores_, cand_ids_[j])]

\* lines 305-306
vc_of(cand_ids_, vec_ranks_, vec_scores_) ==
    [j \in 1..Len(cand_ids_) |->
        IF cand_ids_[j] \in Range(vec_ranks_)
        THEN At(vec_scores_, IndexOf(vec_ranks_, cand_ids_[j]))
        ELSE 0]

\* line 308: alpha * vc_n + (1 - alpha) * bm_n, as numerators over
\* final_den_of
final_of(alpha_num, vc_n, bm_n) ==
    [j \in 1..Len(vc_n.num) |->
        alpha_num * vc_n.num[j] * bm_n.den
        + (AlphaDen - alpha_num) * bm_n.num[j] * vc_n.den]

final_den_of(vc_n, bm_n) == AlphaDen * vc_n.den * bm_n.den

\* order without the [::-1]: ascending
order_ascending(final_, kind) == argsort(final_, kind)

\* line 309
order_of(final_, kind) == Reverse(argsort(final_, kind))

\* line 321: meta["text"][:700].replace("\n", " ")
SnippetLen == 700

snippet_of(text) == ReplaceChar(Take(text, SnippetLen), "\n", <<" ">>)

\* line 341 and run_api.py line 977
NO_RESULT == <<"NO_RESULT">>

NO_ACCESS == <<"NO_ACCESS">>

\* ------------------------------------------------------------------------
\* State
\* ------------------------------------------------------------------------

VARIABLES
    \* the loaded indices and the process
    meta,             \* indices.meta: the chunk collection
    bm25_scores,      \* what indices.bm25.get_scores returns for the query
    faiss_hits,       \* what indices.faiss_index.search returns: [I, D]
    sort_kind,        \* how this build's argsort orders equal keys
    hash_seed,        \* the process's string hash seed
    glossary_file,    \* conf/glossary_ar.json: its entries, or "absent"
    \* the request
    user_roles,       \* current_user.roles / --roles: the declared roles
    query, topk, bm25_k, vec_k, alpha_num,
    \* search, lines 261-291
    q_tokens,
    glossary,
    green_terms,      \* the related terms, line 269
    yellow_terms,     \* the direct terms, lines 272-291
    \* the /ask handler and search
    pc,
    effective_roles,
    bm25_ranks, vec_ranks, vec_scores,
    cand_ids, bm_n, vc_n, final, final_den, order,
    loop_pos,         \* position in order of the candidate the loop is at
    results,
    answer_html,      \* the answer search returns
    filtered_results, \* the citations of the response
    answer,           \* the answer of the response
    \* one call of highlight_text on its own
    h_pc, h_text, h_yellow_terms, h_green_terms,
    all_yellow_terms, all_green_terms,
    yellow_positions, green_positions,
    filtered_highlights, h_result,
    \* normalize.py on its own: one string through the three functions
    n_pc, n_s, n_norm, n_again, n_western, n_tokens, n_tokens_norm,
    \* more than one call of search
    first_out,        \* what the earlier call of the same request returned
    parked,           \* the locals of the request that is not running
    who,              \* the request that is running: "A" or "B"
    \* the files the scripts read and write: lists of chunk ids
    raw_chunks,       \* the chunks the PDFs of data/raw give
    chunks_jsonl,     \* data/processed/chunks.jsonl
    bm25_pkl,         \* data/idx/bm25.pkl
    mE5_faiss,        \* data/idx/mE5.faiss
    meta_json         \* data/idx/meta.json

norm_vars == <<n_pc, n_s, n_norm, n_again, n_western, n_tokens, n_tokens_norm>>

call_vars == <<first_out, parked, who>>

ingest_vars == <<raw_chunks, chunks_jsonl, bm25_pkl, mE5_faiss, meta_json>>

\* what a step of a request to /ask does not touch
side_vars == <<norm_vars, call_vars, ingest_vars>>

index_vars == <<meta, bm25_scores, faiss_hits, sort_kind, hash_seed, glossary_file>>

request_vars == <<user_roles, query, topk, bm25_k, vec_k, alpha_num>>

terms_vars == <<q_tokens, glossary, green_terms, yellow_terms>>

search_vars ==
    <<effective_roles, bm25_ranks, vec_ranks, vec_scores, cand_ids, bm_n, vc_n,
      final, final_den, order, loop_pos, results, answer_html,
      filtered_results, answer>>

h_input_vars == <<h_text, h_yellow_terms, h_green_terms>>

h_vars ==
    <<h_pc, h_text, h_yellow_terms, h_green_terms, all_yellow_terms,
      all_green_terms, yellow_positions, green_positions,
      filtered_highlights, h_result>>

vars == <<index_vars, request_vars, terms_vars, pc, search_vars, h_vars, side_vars>>

\* ------------------------------------------------------------------------
\* Inputs
\* ------------------------------------------------------------------------

ChunkIds == 0..(NChunks - 1)

AllRoles == <<"staff", "legal", "admin">>

DocA == <<"a">>

DocRestricted == <<"R", "e", "s", "t", "r", "i", "c", "t", "e", "d">>

DocRestrict == <<"r", "e", "s", "t", "r", "i", "c", "t">>

RolesAll == <<"staff", "legal", "admin">>

RolesLegalAdmin == <<"legal", "admin">>

\* stands in a chunk kind for a record without the roles and pages fields
NoField == <<"no field">>

\* The kinds of chunk: a document name and a roles field, which can be
\* the empty list or not be there.
ChunkKinds ==
    { <<DocA, RolesAll>>, <<DocA, RolesLegalAdmin>>, <<DocA, <<>> >>,
      <<DocA, NoField>>,
      <<DocRestricted, RolesAll>>, <<DocRestricted, RolesLegalAdmin>>,
      <<DocRestrict, RolesAll>> }

\* the text of the chunk at position i
ChunkText(i) == <<"a", "b", " ", AsciiDigits[i + 1]>>

\* a record of chunks.jsonl: the pages are a list of 1-based numbers
Chunk(i, doc_id, roles) ==
    [doc_id |-> doc_id, article_no |-> i, roles |-> roles, text |-> ChunkText(i),
     pages |-> <<i + 1, i + 2>>]

\* a record that has neither roles nor pages, and has page_start and
\* page_end
BareChunk(i, doc_id) ==
    [doc_id |-> doc_id, article_no |-> i, text |-> ChunkText(i),
     page_start |-> i + 1, page_end |-> i + 1]

ChunkOfKind(i, kind) ==
    IF kind[2] = NoField THEN BareChunk(i, kind[1]) ELSE Chunk(i, kind[1], kind[2])

\* the collections: a sequence of NChunks chunks
Collections(kinds) ==
    { [p \in 1..NChunks |-> ChunkOfKind(p - 1, k[p])] :
        k \in [1..NChunks -> kinds] }

\* the declared roles of USERS_DB and of the command line
RoleLists ==
    { <<"staff">>, <<"legal", "staff">>, <<"admin", "legal", "staff">>,
      <<"legal">>, <<"guest">> }

Bm25Scores == {0, 1}

DenseScores == {1, 2}

AlphaNums == {0, 7, 10}

\* The results faiss gives for k: min(k, ntotal) distinct chunk
\* positions in non-increasing order of score, padded with -1.  The
\* nearest chunks are the first or the last of the collection.
FaissHits(k) ==
    LET m == Min(k, NChunks)
    IN { [I |-> [p \in 1..k |-> IF p <= m THEN ids[p] ELSE -1],
          D |-> [p \in 1..k |-> IF p <= m THEN sc[p] ELSE PadScore]] :
           ids \in { [p \in 1..m |-> p - 1], [p \in 1..m |-> NChunks - p] },
           sc \in {g \in [1..m -> DenseScores] :
                       \A p \in 1..(m - 1) : g[p] >= g[p + 1]} }

\* a query that is no Arabic word and meets no term of the glossary
TermAB == <<"a", "b">>

TermsIdle ==
    /\ q_tokens = <<>> /\ glossary = <<>>
    /\ green_terms = <<>> /\ yellow_terms = <<>>

NormIdle ==
    /\ n_pc = "idle" /\ n_s = <<>> /\ n_norm = <<>> /\ n_again = <<>>
    /\ n_western = <<>> /\ n_tokens = <<>> /\ n_tokens_norm = <<>>

\* no earlier call, no other request
NoOutput == <<>>

CallIdle == first_out = NoOutput /\ parked = <<>> /\ who = "A"

\* a file that is not there
Absent == <<"absent">>

IngestIdle ==
    /\ raw_chunks = <<>>
    /\ chunks_jsonl = Absent /\ bm25_pkl = Absent
    /\ mE5_faiss = Absent /\ meta_json = Absent

SideIdle == NormIdle /\ CallIdle /\ IngestIdle

SearchIdle ==
    /\ effective_roles = {}
    /\ bm25_ranks = <<>> /\ vec_ranks = <<>> /\ vec_scores = <<>>
    /\ cand_ids = <<>>
    /\ bm_n = [num |-> <<>>, den |-> 1] /\ vc_n = [num |-> <<>>, den |-> 1]
    /\ final = <<>> /\ final_den = 1 /\ order = <<>>
    /\ loop_pos = 0
    /\ results = <<>> /\ answer_html = <<>>
    /\ filtered_results = <<>> /\ answer = <<>>

HighlightIdle ==
    /\ h_pc = "idle"
    /\ h_text = <<>> /\ h_yellow_terms = <<>> /\ h_green_terms = <<>>
    /\ all_yellow_terms = <<>> /\ all_green_terms = <<>>
    /\ yellow_positions = <<>> /\ green_positions = <<>>
    /\ filtered_highlights = <<>> /\ h_result = <<>>

\* Requests of every declared role list against every collection; the
\* scorers rank the chunks in the order of their positions.
InitAccess ==
    /\ SideIdle
    /\ meta \in Collections(ChunkKinds)
    /\ bm25_scores = [p \in 1..NChunks |-> NChunks - p]
    /\ faiss_hits = [I |-> [p \in 1..NChunks |-> p - 1],
                     D |-> [p \in 1..NChunks |-> 2]]
    /\ sort_kind = "stable"
    /\ hash_seed = "fwd"
    /\ user_roles \in RoleLists
    /\ topk \in 1..MaxTopK
    /\ bm25_k = NChunks /\ vec_k = NChunks
    /\ alpha_num = 7
    /\ query = TermAB
    /\ glossary_file = "absent"
    /\ TermsIdle
    /\ pc = "start"
    /\ SearchIdle
    /\ HighlightIdle

\* Every score vector, k and alpha, against a collection open to all.
InitFuse ==
    /\ SideIdle
    /\ meta \in Collections({<<DocA, RolesAll>>})
    /\ bm25_scores \in [1..NChunks -> Bm25Scores]
    /\ bm25_k \in 0..(NChunks + 1)
    /\ vec_k \in 0..(NChunks + 1)
    /\ faiss_hits \in FaissHits(vec_k)
    /\ sort_kind \in SortKinds
    /\ hash_seed = "fwd"
    /\ user_roles = <<"staff">>
    /\ topk = NChunks + 1
    /\ alpha_num \in AlphaNums
    /\ query = TermAB
    /\ glossary_file = "absent"
    /\ TermsIdle
    /\ pc = "start"
    /\ SearchIdle
    /\ HighlightIdle

\* ------------------------------------------------------------------------
\* Inputs of search: queries and glossary files
\* ------------------------------------------------------------------------

WordTreaty == <<"t", "r", "e", "a", "t", "y">>

WordNuclear == <<"n", "u", "c", "l", "e", "a", "r">>

WordLicense == <<"l", "i", "c", "e", "n", "s", "e">>

WordXY == <<"x", "y">>

WordABCDE == <<"a", "b", "c", "d", "e">>

WordBCD == <<"b", "c", "d">>

WordZZ == <<"z", "z">>

WordAB1 == <<"a", " ", "b", "1">>

WordASpaceB == <<"a", " ", "b">>

WordNawawi == <<"U+0646", "U+0648", "U+0648", "U+064A">>

WordDharri == <<"U+0630", "U+0631", "U+064A">>

WordTarkhis == <<"U+062A", "U+0631", "U+062E", "U+064A", "U+0635">>

WordRukhsa == <<"U+0631", "U+062E", "U+0635", "U+0629">>

WordAman == <<"U+0623", "U+0645", "U+0627", "U+0646">>

\* the queries: empty, blank, Latin-script with and without a word of the
\* built-in table, with a digit, Arabic-script of one and two words, with a
\* hamza
Queries ==
    { <<>>, <<" ">>, TermAB, WordXY, WordTreaty, WordNuclear, WordLicense,
      WordABCDE, WordAB1, WordNawawi, WordNawawi \o <<" ">> \o WordDharri,
      WordTarkhis, WordAman }

\* an entry with more synonyms than the expansion keeps
BigSynonyms ==
    [n \in 1..(ExpansionCap + 2) |->
        <<"s", AsciiDigits[(n \div 10) + 1], AsciiDigits[(n % 10) + 1]>>]

Entry(main, syns) == [main |-> main, syns |-> syns]

\* the glossary files: none, the empty mapping, and mappings with
\* translations, with short and repeated synonyms, and with a long entry
GlossaryFiles ==
    { "absent",
      <<>>,
      <<Entry(WordTarkhis, <<WordLicense, WordRukhsa>>)>>,
      <<Entry(TermAB, <<WordXY>>)>>,
      <<Entry(WordZZ, <<WordBCD>>), Entry(WordASpaceB, <<>>)>>,
      <<Entry(WordNawawi, <<WordDharri, <<" ">> \o WordDharri \o <<" ">>, <<"n">>,
                            WordNuclear>>),
        Entry(WordDharri, <<WordNawawi, WordNuclear>>)>>,
      <<Entry(WordABCDE, BigSynonyms),
        Entry(WordABCDE \o <<"f">>, <<BigSynonyms[1], WordABCDE>>)>> }

\* the parameters a caller passes, valid or not: <<topk, alpha_num>>
QueryParams == { <<MaxTopK, 7>>, <<-1, 7>>, <<0, 7>>, <<MaxTopK, 13>>, <<MaxTopK, -3>> }

\* the text of the chunk at position i: one chunk holds a word of the
\* glossary in both scripts
QueryChunkText(i) ==
    IF i = 1 THEN WordTarkhis \o <<" ">> \o WordLicense ELSE ChunkText(i)

\* Every query against every glossary file, over a collection open to all.
InitQuery ==
    /\ SideIdle
    /\ meta = [p \in 1..NChunks |->
                  [Chunk(p - 1, DocA, RolesAll) EXCEPT !.text = QueryChunkText(p - 1)]]
    /\ bm25_scores = [p \in 1..NChunks |-> NChunks - p]
    /\ faiss_hits = [I |-> [p \in 1..NChunks |-> p - 1],
                     D |-> [p \in 1..NChunks |-> 2]]
    /\ sort_kind = "stable"
    /\ hash_seed \in HashSeeds
    /\ glossary_file \in GlossaryFiles
    /\ user_roles = <<"staff">>
    /\ query \in Queries
    /\ \E p \in QueryParams : topk = p[1] /\ alpha_num = p[2]
    /\ bm25_k = NChunks /\ vec_k = NChunks
    /\ TermsIdle
    /\ pc = "start"
    /\ SearchIdle
    /\ HighlightIdle

\* ------------------------------------------------------------------------
\* app/run_api.py: ask, and app/retrieval.py: search
\* ------------------------------------------------------------------------

\* run_api.py line 968
GetEffectiveRoles ==
    /\ pc = "start"
    /\ effective_roles' = get_effective_roles(user_roles)
    /\ pc' = "tokenize"
    /\ UNCHANGED <<side_vars, index_vars, request_vars, terms_vars, h_vars, bm25_ranks, vec_ranks,
                   vec_scores, cand_ids, bm_n, vc_n, final, final_den, order,
                   loop_pos, results, answer_html, filtered_results, answer>>

\* retrieval.py lines 261-266: the query is tokenized, the glossary loaded
Tokenize ==
    /\ pc = "tokenize"
    /\ q_tokens' = tokenize_ar(query)
    /\ glossary' = load_glossary(glossary_file)
    /\ pc' = "expand"
    /\ UNCHANGED <<side_vars, index_vars, request_vars, search_vars, h_vars, green_terms,
                   yellow_terms>>

\* retrieval.py line 269
Expand ==
    /\ pc = "expand"
    /\ green_terms' = expand_terms_from_glossary(query, glossary)
    /\ pc' = "yellow"
    /\ UNCHANGED <<side_vars, index_vars, request_vars, search_vars, h_vars, q_tokens,
                   glossary, yellow_terms>>

\* retrieval.py lines 272-291
YellowTerms ==
    /\ pc = "yellow"
    /\ yellow_terms' = yellow_terms_of(query, q_tokens, glossary, hash_seed)
    /\ pc' = "score"
    /\ UNCHANGED <<side_vars, index_vars, request_vars, search_vars, h_vars, q_tokens,
                   glossary, green_terms>>

\* retrieval.py lines 293-300: the two scorers are asked
Score ==
    /\ pc = "score"
    /\ bm25_ranks' = bm25_ranks_of(bm25_scores, bm25_k, sort_kind)
    /\ vec_ranks' = faiss_hits.I
    /\ vec_scores' = faiss_hits.D
    /\ pc' = "combine"
    /\ UNCHANGED <<side_vars, index_vars, request_vars, terms_vars, h_vars, effective_roles, cand_ids,
                   bm_n, vc_n, final, final_den, order, loop_pos, results,
                   answer_html, filtered_results, answer>>

\* retrieval.py lines 303-311
Combine ==
    /\ pc = "combine"
    /\ LET ids == cand_ids_of(bm25_ranks, vec_ranks)
           bn  == minmax_norm(bm_of(ids, bm25_scores))
           vn  == minmax_norm(vc_of(ids, vec_ranks, vec_scores))
           fin == final_of(alpha_num, vn, bn)
       IN /\ cand_ids' = ids
          /\ bm_n' = bn
          /\ vc_n' = vn
          /\ final' = fin
          /\ final_den' = final_den_of(vn, bn)
          /\ order' = order_of(fin, sort_kind)
    /\ loop_pos' = 1
    /\ results' = <<>>
    /\ pc' = IF Len(cand_ids') = 0 THEN "return" ELSE "loop"
    /\ UNCHANGED <<side_vars, index_vars, request_vars, terms_vars, h_vars, effective_roles, bm25_ranks,
                   vec_ranks, vec_scores, answer_html, filtered_results, answer>>

\* dict.get: the value of the key, or the default when the key is not there
meta_get(chunk, key, default) ==
    IF key \in DOMAIN chunk THEN chunk[key] ELSE default

\* Python's None, and an int, as a list of at most one number
None == <<>>

\* lines 324-326: the first and the last page of the chunk
page_start_of(chunk) ==
    LET pages == meta_get(chunk, "pages", <<>>)
    IN IF pages # <<>> THEN <<pages[1]>>
       ELSE IF "page_start" \in DOMAIN chunk THEN <<chunk.page_start>> ELSE None

page_end_of(chunk) ==
    LET pages == meta_get(chunk, "pages", <<>>)
    IN IF pages # <<>> THEN <<pages[Len(pages)]>>
       ELSE IF "page_end" \in DOMAIN chunk THEN <<chunk.page_end>> ELSE None

\* lines 316-319: the candidate is skipped
rbac_skip(roles, doc_roles) == roles # {} /\ (roles \cap Range(doc_roles)) = {}

\* retrieval.py lines 312-339: one turn of the loop over order
LoopStep ==
    /\ pc = "loop"
    /\ LET j     == order[loop_pos]
           idx   == At(cand_ids, j)
           chunk == PyAt(meta, idx)
           highlighted ==
               highlight_text(snippet_of(chunk.text), yellow_terms, green_terms,
                              hash_seed)
           more  == loop_pos + 1 <= Len(order)
       IN IF rbac_skip(effective_roles, meta_get(chunk, "roles", <<>>))
          THEN /\ results' = results
               /\ pc' = IF more THEN "loop" ELSE "return"
          ELSE /\ results' = Append(results,
                                [rank |-> Len(results) + 1,
                                 doc_id |-> chunk.doc_id,
                                 article_no |-> chunk.article_no,
                                 page_start |-> page_start_of(chunk),
                                 page_end |-> page_end_of(chunk),
                                 score |-> At(final, j),
                                 excerpt |-> highlighted])
               /\ pc' = IF Len(results') >= topk \/ ~more THEN "return" ELSE "loop"
    /\ loop_pos' = loop_pos + 1
    /\ UNCHANGED <<side_vars, index_vars, request_vars, terms_vars, h_vars, effective_roles, bm25_ranks,
                   vec_ranks, vec_scores, cand_ids, bm_n, vc_n, final, final_den,
                   order, answer_html, filtered_results, answer>>

\* retrieval.py lines 341-342
SearchReturn ==
    /\ pc = "return"
    /\ answer_html' = IF results # <<>> THEN results[1].excerpt ELSE NO_RESULT
    /\ pc' = "filter"
    /\ UNCHANGED <<side_vars, index_vars, request_vars, terms_vars, h_vars, effective_roles, bm25_ranks,
                   vec_ranks, vec_scores, cand_ids, bm_n, vc_n, final, final_den,
                   order, loop_pos, results, filtered_results, answer>>

\* run_api.py line 974
FilterDocuments ==
    /\ pc = "filter"
    /\ filtered_results' = filter_documents_by_access(user_roles, results)
    /\ pc' = "respond"
    /\ UNCHANGED <<side_vars, index_vars, request_vars, terms_vars, h_vars, effective_roles, bm25_ranks,
                   vec_ranks, vec_scores, cand_ids, bm_n, vc_n, final, final_den,
                   order, loop_pos, results, answer_html, answer>>

\* run_api.py lines 976-991
Respond ==
    /\ pc = "respond"
    /\ answer' = IF filtered_results = <<>> /\ results # <<>>
                 THEN NO_ACCESS ELSE answer_html
    /\ pc' = "done"
    /\ UNCHANGED <<side_vars, index_vars, request_vars, terms_vars, h_vars, effective_roles, bm25_ranks,
                   vec_ranks, vec_scores, cand_ids, bm_n, vc_n, final, final_den,
                   order, loop_pos, results, answer_html, filtered_results>>

\* ------------------------------------------------------------------------
\* app/retrieval.py: highlight_text, stage by stage
\* ------------------------------------------------------------------------

TermBA == <<"b", "a">>

TermAb == <<"A", "b">>

\* alef + beh, and the same with a hamza on the alef
TermAlefB == <<"U+0627", "U+0628">>

TermHamzaB == <<"U+0623", "U+0628">>

\* the excerpts: every string over a small alphabet, and some with upper
\* case and Arabic letters
HLTexts ==
    AllStrings({"a", "b", " "}, MaxTextLen)
    \cup { <<"a", "B", "a", "b">>,
           <<"a", "b", "b", "b", "b">>,
           <<"a", "b", "a", "b", "b">>,
           <<"U+0623", "U+0628">>,
           <<"U+0627", "U+0628", " ", "U+0623", "U+0628">> }

YellowLists ==
    { <<>>,
      <<TermAB>>,
      <<TermAb>>,
      <<TermAB, TermBA>>,
      <<TermAB, TermBA, <<"a", "b", "b">> >>,
      << <<"a">> >>,
      << <<"b", "a", "b", " ", "a">> >>,
      << <<"a", "b", "a", "b">> >>,
      << <<" ", "b", "b", " ">>, TermBA >>,
      <<TermAlefB>> }

GreenLists ==
    { <<>>,
      <<TermBA>>,
      <<TermAB, <<"b", "b">> >>,
      << <<"a", "a", "b", " ", "b">> >>,
      <<TermHamzaB>> }

IdleRequest ==
    /\ meta = <<>> /\ bm25_scores = <<>>
    /\ faiss_hits = [I |-> <<>>, D |-> <<>>]
    /\ sort_kind = "stable"
    /\ user_roles = <<>> /\ topk = 0 /\ bm25_k = 0 /\ vec_k = 0 /\ alpha_num = 0
    /\ query = <<>> /\ glossary_file = "absent"
    /\ TermsIdle
    /\ pc = "idle"
    /\ SearchIdle

\* one call highlight_text(h_text, h_yellow_terms, h_green_terms)
InitHL ==
    /\ SideIdle
    /\ h_text \in HLTexts
    /\ h_yellow_terms \in YellowLists
    /\ h_green_terms \in GreenLists
    /\ hash_seed \in HashSeeds
    /\ h_pc = "clean"
    /\ all_yellow_terms = <<>> /\ all_green_terms = <<>>
    /\ yellow_positions = <<>> /\ green_positions = <<>>
    /\ filtered_highlights = <<>> /\ h_result = <<>>
    /\ IdleRequest

\* lines 37-58
HLClean ==
    /\ h_pc = "clean"
    /\ all_yellow_terms' = clean_terms(h_yellow_terms)
    /\ all_green_terms' = clean_terms(h_green_terms)
    /\ h_pc' = "yellow"
    /\ UNCHANGED <<side_vars, index_vars, request_vars, terms_vars, pc, search_vars, h_input_vars,
                   yellow_positions, green_positions, filtered_highlights, h_result>>

\* lines 60-81
HLYellow ==
    /\ h_pc = "yellow"
    /\ yellow_positions' = yellow_positions_of(h_text, all_yellow_terms, hash_seed)
    /\ h_pc' = "green"
    /\ UNCHANGED <<side_vars, index_vars, request_vars, terms_vars, pc, search_vars, h_input_vars,
                   all_yellow_terms, all_green_terms, green_positions,
                   filtered_highlights, h_result>>

\* lines 83-113
HLGreen ==
    /\ h_pc = "green"
    /\ green_positions' =
           green_positions_of(h_text, all_yellow_terms, all_green_terms,
                              yellow_positions, hash_seed)
    /\ h_pc' = "fallback"
    /\ UNCHANGED <<side_vars, index_vars, request_vars, terms_vars, pc, search_vars, h_input_vars,
                   all_yellow_terms, all_green_terms, yellow_positions,
                   filtered_highlights, h_result>>

\* lines 115-134
HLFallback ==
    /\ h_pc = "fallback"
    /\ green_positions' =
           fallback_positions(h_text, all_yellow_terms, all_green_terms,
                              yellow_positions, green_positions)
    /\ h_pc' = "resolve"
    /\ UNCHANGED <<side_vars, index_vars, request_vars, terms_vars, pc, search_vars, h_input_vars,
                   all_yellow_terms, all_green_terms, yellow_positions,
                   filtered_highlights, h_result>>

\* lines 136-154
HLResolve ==
    /\ h_pc = "resolve"
    /\ filtered_highlights' =
           filtered_highlights_of(all_highlights_of(yellow_positions, green_positions))
    /\ h_pc' = "apply"
    /\ UNCHANGED <<side_vars, index_vars, request_vars, terms_vars, pc, search_vars, h_input_vars,
                   all_yellow_terms, all_green_terms, yellow_positions,
                   green_positions, h_result>>

\* lines 156-161
HLApply ==
    /\ h_pc = "apply"
    /\ h_result' = apply_highlights(h_text, filtered_highlights)
    /\ h_pc' = "done"
    /\ UNCHANGED <<side_vars, index_vars, request_vars, terms_vars, pc, search_vars, h_input_vars,
                   all_yellow_terms, all_green_terms, yellow_positions,
                   green_positions, filtered_highlights>>

NextHL ==
    \/ HLClean
    \/ HLYellow
    \/ HLGreen
    \/ HLFallback
    \/ HLResolve
    \/ HLApply

\* highlight_text over every excerpt and term list
SpecHL == InitHL /\ [][NextHL]_vars

Next ==
    \/ GetEffectiveRoles
    \/ Tokenize
    \/ Expand
    \/ YellowTerms
    \/ Score
    \/ Combine
    \/ LoopStep
    \/ SearchReturn
    \/ FilterDocuments
    \/ Respond

\* /ask over every collection and every declared role list
Spec == InitAccess /\ [][Next]_vars

\* /ask over every score vector
SpecFuse == InitFuse /\ [][Next]_vars

\* search on every query and glossary file
SpecQuery == InitQuery /\ [][Next]_vars

\* ------------------------------------------------------------------------
\* app/normalize.py on its own
\* ------------------------------------------------------------------------

\* a Latin letter, a blank, digits of the three kinds, letters normalize_ar
\* folds and letters it keeps, a diacritic, the tatweel, the Arabic comma
NormAlphabet ==
    { "a", " ", "3", "U+0660", "U+0663", "U+06F3", "U+0623", "U+0627",
      "U+0649", "U+064E", "U+0640", "U+060C" }

NormStrings ==
    UNION { [1..n -> NormAlphabet] : n \in 0..MaxStrLen }

InitNorm ==
    /\ n_s \in NormStrings
    /\ n_pc = "normalize"
    /\ n_norm = <<>> /\ n_again = <<>> /\ n_western = <<>>
    /\ n_tokens = <<>> /\ n_tokens_norm = <<>>
    /\ CallIdle /\ IngestIdle
    /\ hash_seed = "fwd"
    /\ IdleRequest
    /\ HighlightIdle

\* normalize_ar(s)
NormNormalize ==
    /\ n_pc = "normalize"
    /\ n_norm' = normalize_ar(n_s)
    /\ n_pc' = "again"
    /\ UNCHANGED <<index_vars, request_vars, terms_vars, pc, search_vars, h_vars,
                   call_vars, ingest_vars, n_s, n_again, n_western, n_tokens, n_tokens_norm>>

\* normalize_ar of what normalize_ar returned
NormAgain ==
    /\ n_pc = "again"
    /\ n_again' = normalize_ar(n_norm)
    /\ n_pc' = "digits"
    /\ UNCHANGED <<index_vars, request_vars, terms_vars, pc, search_vars, h_vars,
                   call_vars, ingest_vars, n_s, n_norm, n_western, n_tokens, n_tokens_norm>>

\* to_western_digits(s)
NormDigits ==
    /\ n_pc = "digits"
    /\ n_western' = to_western_digits(n_s)
    /\ n_pc' = "tokens"
    /\ UNCHANGED <<index_vars, request_vars, terms_vars, pc, search_vars, h_vars,
                   call_vars, ingest_vars, n_s, n_norm, n_again, n_tokens, n_tokens_norm>>

\* tokenize_ar(s) and tokenize_ar(normalize_ar(s))
NormTokenize ==
    /\ n_pc = "tokens"
    /\ n_tokens' = tokenize_ar(n_s)
    /\ n_tokens_norm' = tokenize_ar(n_norm)
    /\ n_pc' = "done"
    /\ UNCHANGED <<index_vars, request_vars, terms_vars, pc, search_vars, h_vars,
                   call_vars, ingest_vars, n_s, n_norm, n_again, n_western>>

NextNorm ==
    \/ NormNormalize
    \/ NormAgain
    \/ NormDigits
    \/ NormTokenize

SpecNorm == InitNorm /\ [][NextNorm]_vars

\* ------------------------------------------------------------------------
\* scripts/05_query_cli.py: the same request asked again
\* ------------------------------------------------------------------------

\* a query of two words of one length that overlap in a word of the text
WordABC_BCA == <<"a", "b", "c", " ", "b", "c", "a">>

AgainChunkText(i) ==
    IF i = 0 THEN <<"a", "b", "c", "a">> ELSE ChunkText(i)

\* what search returns (line 342)
search_out == <<[answer |-> answer_html, results |-> results]>>

InitAgain ==
    /\ SideIdle
    /\ meta = [p \in 1..NChunks |->
                  [Chunk(p - 1, DocA, RolesAll) EXCEPT !.text = AgainChunkText(p - 1)]]
    /\ bm25_scores = [p \in 1..NChunks |-> NChunks - p]
    /\ faiss_hits = [I |-> [p \in 1..NChunks |-> p - 1],
                     D |-> [p \in 1..NChunks |-> 2]]
    /\ sort_kind \in SortKinds
    /\ hash_seed \in HashSeeds
    /\ glossary_file \in {"absent", <<Entry(TermAB, <<WordXY>>)>>}
    /\ user_roles \in {<<"staff">>, <<"legal">>}
    /\ query \in {WordABC_BCA, TermAB, WordNawawi}
    /\ topk \in 1..MaxTopK
    /\ alpha_num = 7
    /\ bm25_k = NChunks /\ vec_k = NChunks
    /\ TermsIdle
    /\ pc = "start"
    /\ SearchIdle
    /\ HighlightIdle

\* The command is run a second time with the same arguments: a new
\* process, which loads the same files (05_query_cli.py lines 12-16) and
\* has its own string hash seed.
CallAgain ==
    /\ pc = "done"
    /\ first_out = NoOutput
    /\ first_out' = search_out
    /\ hash_seed' \in HashSeeds
    /\ pc' = "start"
    /\ q_tokens' = <<>> /\ glossary' = <<>>
    /\ green_terms' = <<>> /\ yellow_terms' = <<>>
    /\ effective_roles' = {}
    /\ bm25_ranks' = <<>> /\ vec_ranks' = <<>> /\ vec_scores' = <<>>
    /\ cand_ids' = <<>>
    /\ bm_n' = [num |-> <<>>, den |-> 1] /\ vc_n' = [num |-> <<>>, den |-> 1]
    /\ final' = <<>> /\ final_den' = 1 /\ order' = <<>>
    /\ loop_pos' = 0
    /\ results' = <<>> /\ answer_html' = <<>>
    /\ filtered_results' = <<>> /\ answer' = <<>>
    /\ UNCHANGED <<meta, bm25_scores, faiss_hits, sort_kind, glossary_file,
                   request_vars, h_vars, norm_vars, parked, who, ingest_vars>>

NextAgain ==
    \/ Next
    \/ CallAgain

SpecAgain == InitAgain /\ [][NextAgain]_vars

\* ------------------------------------------------------------------------
\* app/run_api.py: two requests to /ask at a time
\* ------------------------------------------------------------------------

\* the locals of the request that is running (the frames of ask and search)
context ==
    [who |-> who, user_roles |-> user_roles, query |-> query, topk |-> topk,
     bm25_k |-> bm25_k, vec_k |-> vec_k, alpha_num |-> alpha_num,
     q_tokens |-> q_tokens, glossary |-> glossary,
     green_terms |-> green_terms, yellow_terms |-> yellow_terms, pc |-> pc,
     effective_roles |-> effective_roles, bm25_ranks |-> bm25_ranks,
     vec_ranks |-> vec_ranks, vec_scores |-> vec_scores,
     cand_ids |-> cand_ids, bm_n |-> bm_n, vc_n |-> vc_n, final |-> final,
     final_den |-> final_den, order |-> order, loop_pos |-> loop_pos,
     results |-> results, answer_html |-> answer_html,
     filtered_results |-> filtered_results, answer |-> answer]

\* the locals of a request that has not begun: the query of the running
\* request, asked by another requester
fresh_context(name, roles, k) ==
    [who |-> name, user_roles |-> roles, query |-> query, topk |-> k,
     bm25_k |-> bm25_k, vec_k |-> vec_k, alpha_num |-> alpha_num,
     q_tokens |-> <<>>, glossary |-> <<>>, green_terms |-> <<>>,
     yellow_terms |-> <<>>, pc |-> "start", effective_roles |-> {},
     bm25_ranks |-> <<>>, vec_ranks |-> <<>>, vec_scores |-> <<>>,
     cand_ids |-> <<>>, bm_n |-> [num |-> <<>>, den |-> 1],
     vc_n |-> [num |-> <<>>, den |-> 1], final |-> <<>>, final_den |-> 1,
     order |-> <<>>, loop_pos |-> 0, results |-> <<>>, answer_html |-> <<>>,
     filtered_results |-> <<>>, answer |-> <<>>]

\* the locals shared with the request that ran before: the effective roles
\* kept in one place for all requests
resume_sharing_roles(ctx, running) ==
    [ctx EXCEPT !.effective_roles = running.effective_roles]

\* a request goes on with the locals it stopped with
resume(ctx, running) == ctx

\* what ask sends (lines 981-987)
ask_out == <<[answer |-> answer, citations |-> filtered_results]>>

ConcKinds == { <<DocA, RolesLegalAdmin>>, <<DocRestricted, RolesAll>> }

ConcRoles == { <<"staff">>, <<"legal">> }

InitConc ==
    /\ SideIdle
    /\ meta \in Collections(ConcKinds)
    /\ bm25_scores = [p \in 1..NChunks |-> NChunks - p]
    /\ faiss_hits = [I |-> [p \in 1..NChunks |-> p - 1],
                     D |-> [p \in 1..NChunks |-> 2]]
    /\ sort_kind = "stable"
    /\ hash_seed = "fwd"
    /\ glossary_file = "absent"
    /\ user_roles \in ConcRoles
    /\ query = TermAB
    /\ topk \in {1, MaxTopK}
    /\ alpha_num = 7
    /\ bm25_k = NChunks /\ vec_k = NChunks
    /\ TermsIdle
    /\ pc = "start"
    /\ SearchIdle
    /\ HighlightIdle

\* Request A has been answered with no other request about.  It is sent
\* again, and a request B of another requester comes in with it.
StartPair ==
    /\ pc = "done"
    /\ first_out = NoOutput /\ parked = <<>>
    /\ first_out' = ask_out
    /\ \E roles \in ConcRoles : \E k \in {1, MaxTopK} :
           parked' = <<fresh_context("B", roles, k)>>
    /\ LET next == fresh_context("A", user_roles, topk)
       IN
          /\ who' = next.who
          /\ user_roles' = next.user_roles
          /\ query' = next.query
          /\ topk' = next.topk
          /\ bm25_k' = next.bm25_k
          /\ vec_k' = next.vec_k
          /\ alpha_num' = next.alpha_num
          /\ q_tokens' = next.q_tokens
          /\ glossary' = next.glossary
          /\ green_terms' = next.green_terms
          /\ yellow_terms' = next.yellow_terms
          /\ pc' = next.pc
          /\ effective_roles' = next.effective_roles
          /\ bm25_ranks' = next.bm25_ranks
          /\ vec_ranks' = next.vec_ranks
          /\ vec_scores' = next.vec_scores
          /\ cand_ids' = next.cand_ids
          /\ bm_n' = next.bm_n
          /\ vc_n' = next.vc_n
          /\ final' = next.final
          /\ final_den' = next.final_den
          /\ order' = next.order
          /\ loop_pos' = next.loop_pos
          /\ results' = next.results
          /\ answer_html' = next.answer_html
          /\ filtered_results' = next.filtered_results
          /\ answer' = next.answer
    /\ UNCHANGED <<index_vars, h_vars, norm_vars, ingest_vars>>

\* the running request is stopped between two steps and the other goes on
Switch ==
    /\ parked # <<>>
    /\ parked[1].pc # "done"
    /\ parked' = <<context>>
    /\ LET next == resume(parked[1], context)
       IN
          /\ who' = next.who
          /\ user_roles' = next.user_roles
          /\ query' = next.query
          /\ topk' = next.topk
          /\ bm25_k' = next.bm25_k
          /\ vec_k' = next.vec_k
          /\ alpha_num' = next.alpha_num
          /\ q_tokens' = next.q_tokens
          /\ glossary' = next.glossary
          /\ green_terms' = next.green_terms
          /\ yellow_terms' = next.yellow_terms
          /\ pc' = next.pc
          /\ effective_roles' = next.effective_roles
          /\ bm25_ranks' = next.bm25_ranks
          /\ vec_ranks' = next.vec_ranks
          /\ vec_scores' = next.vec_scores
          /\ cand_ids' = next.cand_ids
          /\ bm_n' = next.bm_n
          /\ vc_n' = next.vc_n
          /\ final' = next.final
          /\ final_den' = next.final_den
          /\ order' = next.order
          /\ loop_pos' = next.loop_pos
          /\ results' = next.results
          /\ answer_html' = next.answer_html
          /\ filtered_results' = next.filtered_results
          /\ answer' = next.answer
    /\ UNCHANGED <<index_vars, h_vars, norm_vars, first_out, ingest_vars>>

NextConc ==
    \/ Next
    \/ StartPair
    \/ Switch

SpecConc == InitConc /\ [][NextConc]_vars

\* ------------------------------------------------------------------------
\* scripts/02_extract_and_chunk.py, 03_build_bm25.py, 04_build_faiss.py,
\* add_restricted_docs.py
\* ------------------------------------------------------------------------

\* the ids of the chunks of n articles
PdfChunks(n) == [p \in 1..n |-> <<"a", "::", "art", AsciiDigits[p + 1]>>]

\* add_restricted_docs.py lines 29-59: the ids of the three test documents
restricted_docs ==
    << <<"Restricted Nuclear Safety Protocol", "::", "art", "1">>,
       <<"Confidential Restricted Nuclear Waste Management", "::", "art", "1">>,
       <<"Public Nuclear Energy Policy", "::", "art", "1">> >>

\* the longest file of the model: the test documents added twice
MaxFileLen == NChunks + 2 * Len(restricted_docs)

InitIngest ==
    /\ raw_chunks \in { PdfChunks(n) : n \in 1..NChunks }
    /\ chunks_jsonl = Absent /\ bm25_pkl = Absent
    /\ mE5_faiss = Absent /\ meta_json = Absent
    /\ NormIdle /\ CallIdle
    /\ hash_seed = "fwd"
    /\ IdleRequest
    /\ HighlightIdle

\* 02_extract_and_chunk.py and chunking.run_for_folder: chunks.jsonl is
\* written anew from the PDFs
ExtractAndChunk ==
    /\ chunks_jsonl' = raw_chunks
    /\ UNCHANGED <<index_vars, request_vars, terms_vars, pc, search_vars, h_vars,
                   norm_vars, call_vars, raw_chunks, bm25_pkl, mE5_faiss, meta_json>>

\* 03_build_bm25.py: one token list for each chunk of chunks.jsonl
BuildBm25 ==
    /\ chunks_jsonl # Absent
    /\ bm25_pkl' = chunks_jsonl
    /\ UNCHANGED <<index_vars, request_vars, terms_vars, pc, search_vars, h_vars,
                   norm_vars, call_vars, raw_chunks, chunks_jsonl, mE5_faiss, meta_json>>

\* 04_build_faiss.py: one vector for each chunk of chunks.jsonl, and the
\* chunks as meta.json
BuildFaiss ==
    /\ chunks_jsonl # Absent
    /\ mE5_faiss' = chunks_jsonl
    /\ meta_json' = chunks_jsonl
    /\ UNCHANGED <<index_vars, request_vars, terms_vars, pc, search_vars, h_vars,
                   norm_vars, call_vars, raw_chunks, chunks_jsonl, bm25_pkl>>

\* add_restricted_docs.py lines 9-91: the test documents are appended to
\* chunks.jsonl and, when it is there, to meta.json
add_restricted_documents ==
    /\ chunks_jsonl # Absent
    /\ Len(chunks_jsonl) + Len(restricted_docs) <= MaxFileLen
    /\ meta_json # Absent => Len(meta_json) + Len(restricted_docs) <= MaxFileLen
    /\ chunks_jsonl' = chunks_jsonl \o restricted_docs
    /\ meta_json' = IF meta_json # Absent THEN meta_json \o restricted_docs
                    ELSE meta_json
    /\ UNCHANGED <<index_vars, request_vars, terms_vars, pc, search_vars, h_vars,
                   norm_vars, call_vars, raw_chunks, bm25_pkl, mE5_faiss>>

NextIngest ==
    \/ ExtractAndChunk
    \/ BuildBm25
    \/ BuildFaiss
    \/ add_restricted_documents

SpecIngest == InitIngest /\ [][NextIngest]_vars

\* ------------------------------------------------------------------------
\* Properties
\* ------------------------------------------------------------------------

PastCombine == {"loop", "return", "filter", "respond", "done"}

PastFilter == {"respond", "done"}

UpperOf(c) == UpperLetters[CHOOSE i \in DOMAIN LowerLetters : LowerLetters[i] = c]

\* the name holds the word "restricted", in any mix of cases
NameRestricted(d) ==
    \E i \in 0..(Len(d) - Len(RestrictedWord)) :
        \A k \in 1..Len(RestrictedWord) :
            d[i + k] \in {RestrictedWord[k], UpperOf(RestrictedWord[k])}

Privileged == Range(user_roles) \cap {"legal", "admin"} # {}

\* both gates of the access filter, for one chunk and the requester
Admit(chunk) ==
    /\ effective_roles \cap Range(meta_get(chunk, "roles", <<>>)) # {}
    /\ ~NameRestricted(chunk.doc_id) \/ Privileged

\* the chunk a citation was made from
ChunkOf(c) == At(meta, c.article_no)

\* C1: access filter soundness.  Every citation of the response is of a
\* chunk whose roles meet the requester's effective roles and whose name
\* either does not hold "restricted" or is asked for by a legal or admin
\* requester; this also for a requester whose effective role set is empty.
C1_AccessFilterSound ==
    pc = "done" =>
        \A q \in DOMAIN filtered_results : Admit(ChunkOf(filtered_results[q]))

\* C2: the role hierarchy only widens.  Every declared role is among the
\* effective roles get_effective_roles returns.
C2_HierarchyOnlyWidens ==
    pc # "start" => Range(user_roles) \subseteq effective_roles

NamePool ==
    { DocA, DocRestricted, DocRestrict, <<>>,
      <<"r", "e", "s", "t", "r", "i", "c", "t", "e", "d">>,
      <<"x", "R", "E", "S", "T", "R", "I", "C", "T", "E", "D", "1">>,
      <<"r", "e", "s", "t", "r", "i", "c", "t", "e", "D", "x">>,
      <<"r", "e", "s", "t", "r", "i", "c", "t", "e">> }

GatePasses(d) == ~NameRestricted(d) \/ Privileged

ResultPasses(c) == GatePasses(c.doc_id)

\* C3: the naming-pattern gate.  check_file_access holds of a name exactly
\* when the name does not hold "restricted" (in any case) or the declared
\* roles meet {legal, admin}; the response's citations are exactly the
\* search results that pass it, in their order; so a staff-only requester
\* gets no citation with "restricted" in its name, and a legal or admin
\* requester gets every such search result.
C3_NamingGate ==
    /\ \A d \in NamePool : check_file_access(user_roles, d) <=> GatePasses(d)
    /\ pc \in PastFilter =>
        /\ filtered_results = SelectSeq(results, ResultPasses)
        /\ user_roles = <<"staff">> =>
               \A q \in DOMAIN filtered_results :
                   ~NameRestricted(filtered_results[q].doc_id)
        /\ Privileged =>
               \A q \in DOMAIN results :
                   NameRestricted(results[q].doc_id) =>
                       \E r \in DOMAIN filtered_results :
                           filtered_results[r] = results[q]

\* a staff-only requester: a search result with "restricted" in its name
\* was removed and another result was delivered
C3_Witness ==
    /\ pc = "done"
    /\ user_roles = <<"staff">>
    /\ \E q \in DOMAIN results : results[q].doc_id = DocRestricted
    /\ filtered_results # <<>>
    /\ Len(filtered_results) < Len(results)

\* the chunks of the fused ranking, best first
FusedRanking == [q \in 1..Len(order) |-> PyAt(meta, At(cand_ids, order[q]))]

ArticleNos(seq) == [q \in 1..Len(seq) |-> seq[q].article_no]

\* C4: the output is capped at topk after filtering.  For topk >= 1 the
\* citations of the response are the first min(topk, n) chunks of the
\* fused ranking that pass both gates, n the number that pass.  Stated
\* for the requesters that have a role of the hierarchy.
C4_TopkAfterFilter ==
    (pc = "done" /\ topk >= 1 /\ effective_roles # {}) =>
        ArticleNos(filtered_results)
            = ArticleNos(Take(SelectSeq(FusedRanking, Admit), topk))

\* C5: the ranks of the response's citations are 1, 2, 3, ... without gaps.
C5_RanksDense ==
    pc = "done" =>
        \A q \in DOMAIN filtered_results : filtered_results[q].rank = q

NonIncreasingScores(seq) ==
    \A q, r \in DOMAIN seq : q < r => seq[q].score >= seq[r].score

\* C6: fusion gives at most bm25_k + vec_k candidates, the union of the
\* two top-k lists without repeats, and the fused scores of the citations
\* never increase down the list.
C6_FusionBounded ==
    /\ pc \in PastCombine =>
        /\ Len(cand_ids) <= bm25_k + vec_k
        /\ Range(cand_ids) = Range(bm25_ranks) \cup Range(vec_ranks)
        /\ \A q, r \in DOMAIN cand_ids : q # r => cand_ids[q] # cand_ids[r]
    /\ NonIncreasingScores(results)
    /\ NonIncreasingScores(filtered_results)

\* both scorers gave candidates, no candidate came from both, and the
\* response has three citations, not all of one score
C6_Witness ==
    /\ pc = "done"
    /\ bm25_k >= 1 /\ vec_k >= 1
    /\ Len(cand_ids) = bm25_k + vec_k
    /\ Len(filtered_results) >= 3
    /\ \E q \in DOMAIN filtered_results :
           q > 1 /\ filtered_results[q - 1].score > filtered_results[q].score

\* C7: candidates of equal fused score are ranked in their first-seen
\* order, the order of cand_ids.
C7_TiesKeepFirstSeen ==
    pc \in PastCombine =>
        \A q, r \in DOMAIN order :
            (q < r /\ At(final, order[q]) = At(final, order[r]))
                => order[q] < order[r]

RawBm == bm_of(cand_ids, bm25_scores)

RawVc == vc_of(cand_ids, vec_ranks, vec_scores)

\* the normalised array n of the raw array: in [0, 1], all 0 when the raw
\* scores span less than epsilon, never divided by a span below epsilon,
\* and the empty array unchanged
NormOK(raw, n) ==
    /\ Len(n.num) = Len(raw)
    /\ n.den >= EpsUnits
    /\ \A j \in DOMAIN n.num : 0 <= n.num[j] /\ n.num[j] <= n.den
    /\ (raw # <<>> /\ SeqMax(raw) - SeqMin(raw) < EpsUnits) =>
           \A j \in DOMAIN n.num : n.num[j] = 0
    /\ raw = <<>> => n.num = raw

\* C8: min-max normalisation is bounded.  Every normalised score is in
\* [0, 1]; with all raw scores equal every normalised score is 0 and
\* nothing is divided by the span; an empty array comes back unchanged.
C8_MinMaxBounded ==
    pc \in PastCombine => (NormOK(RawBm, bm_n) /\ NormOK(RawVc, vc_n))

\* the dense scores normalise to a value strictly inside (0, 1) and the
\* lexical scores of the candidates are all equal
C8_Witness ==
    /\ pc = "done"
    /\ Len(cand_ids) >= 2
    /\ \E j \in DOMAIN vc_n.num : 0 < vc_n.num[j] /\ vc_n.num[j] < vc_n.den
    /\ SeqMax(RawBm) = SeqMin(RawBm)
    /\ \A j \in DOMAIN bm_n.num : bm_n.num[j] = 0

\* the dense array with candidate j's raw score raised to v
RaisedVc(j, v) == [RawVc EXCEPT ![j] = v]

SameRange(a, b) == SeqMin(a) = SeqMin(b) /\ SeqMax(a) = SeqMax(b)

\* the fused score of candidate j with the dense array a is at least
\* (more than, when strict) its fused score now
FusedNotBelow(j, a, strict) ==
    LET vn2 == minmax_norm(a)
        f2  == final_of(alpha_num, vn2, bm_n)
        d2  == final_den_of(vn2, bm_n)
    IN IF strict THEN f2[j] * final_den > final[j] * d2
       ELSE f2[j] * final_den >= final[j] * d2

\* C9: fusion is monotone in the dense score.  A candidate absent from the
\* dense top-k counts with the dense raw score 0; and raising one
\* candidate's dense raw score, the others and the minimum and maximum of
\* the dense array unchanged, never lowers its fused score.
C9_FusionMonotone ==
    pc \in PastCombine =>
        /\ \A j \in DOMAIN cand_ids :
               cand_ids[j] \notin Range(vec_ranks) => RawVc[j] = 0
        /\ \A j \in DOMAIN cand_ids : \A v \in DenseScores :
               (v > RawVc[j] /\ SameRange(RaisedVc(j, v), RawVc))
                   => FusedNotBelow(j, RaisedVc(j, v), FALSE)

\* a candidate whose dense score can be raised inside the range, and whose
\* fused score then grows
C9_Witness ==
    /\ pc = "done"
    /\ alpha_num > 0
    /\ \E j \in DOMAIN cand_ids : \E v \in DenseScores :
           /\ v > RawVc[j]
           /\ SameRange(RaisedVc(j, v), RawVc)
           /\ FusedNotBelow(j, RaisedVc(j, v), TRUE)

OpenTags == {"<mark:Y title=", "<mark:G title="}

\* what the markers of the kept highlights that start before offset s add
\* to the length of the text before s: a marker of a span of n characters
\* is n + 3 symbols longer than the span
RECURSIVE MarkerShift(_, _)
MarkerShift(hs, s) ==
    IF hs = <<>> THEN 0
    ELSE (IF Head(hs).s < s THEN SpanLen(Head(hs)) + 3 ELSE 0)
         + MarkerShift(Tail(hs), s)

\* the marker of the kept highlight h stands in the result at the place of
\* its span and wraps the span's own characters of the excerpt
MarkerInPlace(h) ==
    LET off == h.s + MarkerShift(filtered_highlights, h.s)
        n   == SpanLen(h)
    IN /\ off + 2 * n + 3 <= Len(h_result)
       /\ h_result[off + 1] \in OpenTags
       /\ h_result[off + n + 2] = ">"
       /\ SubSeq(h_result, off + n + 3, off + 2 * n + 2) = Slice(h_text, h.s, h.e)
       /\ h_result[off + 2 * n + 3] = "</mark>"

\* C10: highlighter non-overlap.  No two spans highlight_text marks overlap
\* in the excerpt, and every marker wraps exactly the characters of the
\* excerpt at its span, in their own case and with their diacritics.
C10_HighlightNonOverlap ==
    /\ \A x, y \in DOMAIN filtered_highlights :
           x # y => ~Overlaps(filtered_highlights[x], filtered_highlights[y])
    /\ h_pc = "done" =>
           \A x \in DOMAIN filtered_highlights : MarkerInPlace(filtered_highlights[x])

\* two spans are marked, one recorded span was dropped for overlapping,
\* and a marked span is not written as its term is
C10_Witness ==
    /\ h_pc = "done"
    /\ Len(filtered_highlights) >= 2
    /\ Len(yellow_positions) + Len(green_positions) > Len(filtered_highlights)

\* the kept highlights that start at or after offset s, first span first
KeptFrom(s) ==
    LET S == {x \in DOMAIN filtered_highlights : filtered_highlights[x].s >= s}
    IN S

\* the excerpt from offset s on, with the marker of every kept highlight
\* that starts there or later put around its span
RECURSIVE Marked(_)
Marked(s) ==
    IF KeptFrom(s) = {} THEN Drop(h_text, s)
    ELSE LET x == CHOOSE x \in KeptFrom(s) :
                      \A y \in KeptFrom(s) :
                          filtered_highlights[x].s <= filtered_highlights[y].s
             h == filtered_highlights[x]
         IN Slice(h_text, s, h.s)
            \o <<OpenTag(h.cls)>> \o h.w \o <<">">>
            \o Slice(h_text, h.s, h.e) \o <<"</mark>">>
            \o Marked(h.e)

\* the symbols of the markers: the opening tag with its title, and the
\* closing tag; a span of n characters has a marker of n + 3 symbols
RECURSIVE MarkersLength(_)
MarkersLength(hs) ==
    IF hs = <<>> THEN 0 ELSE SpanLen(Head(hs)) + 3 + MarkersLength(Tail(hs))

\* the output with every marker taken out: the opening tag up to the end of
\* its title, and the closing tag
RECURSIVE Unmark(_, _)
Unmark(out, in_tag) ==
    IF out = <<>> THEN <<>>
    ELSE IF in_tag THEN Unmark(Tail(out), Head(out) # ">")
    ELSE IF Head(out) \in OpenTags THEN Unmark(Tail(out), TRUE)
    ELSE IF Head(out) = "</mark>" THEN Unmark(Tail(out), FALSE)
    ELSE <<Head(out)>> \o Unmark(Tail(out), FALSE)

HLTerms == Range(all_yellow_terms) \cup Range(all_green_terms)

\* neither a term nor a part of three or more characters of a term stands
\* in the excerpt, in any case
NoTermOccurs ==
    \A t \in HLTerms : \A i \in 0..Len(t) : \A j \in i..Len(t) :
        (j - i >= 3 \/ (i = 0 /\ j = Len(t) /\ j > 0))
            => ~Contains(Lower(h_text), Lower(Slice(t, i, j)))

\* C11: highlight_text changes nothing outside the matched spans.  The
\* output is the excerpt with a marker around every surviving span; its
\* length is the excerpt's plus the markers'; with the markers taken out it
\* is the excerpt; and when no term occurs it is the excerpt itself.
C11_HighlightFrame ==
    h_pc = "done" =>
        /\ h_result = Marked(0)
        /\ Len(h_result) = Len(h_text) + MarkersLength(filtered_highlights)
        /\ Unmark(h_result, FALSE) = h_text
        /\ NoTermOccurs => h_result = h_text

\* a span is marked that has unmarked text before it and after it
C11_Witness ==
    /\ h_pc = "done"
    /\ h_result # h_text
    /\ \E x \in DOMAIN filtered_highlights :
           /\ filtered_highlights[x].s > 0
           /\ filtered_highlights[x].e < Len(h_text)

\* search is past line 269: green_terms is what expand_terms_from_glossary
\* returned
PastExpand ==
    {"yellow", "score", "combine", "loop", "return", "filter", "respond", "done"}

\* C12: with an empty glossary, or no glossary file, the expansion is
\* empty for every query.
C12_EmptyGlossaryNoOp ==
    (pc \in PastExpand /\ glossary = <<>>) => green_terms = <<>>

\* C13: the expansion excludes the literal query terms.  No term
\* expand_terms_from_glossary returns equals, after normalization, a token
\* of the query.
C13_ExpansionExcludesLiteral ==
    pc \in PastExpand =>
        \A t \in Range(green_terms) : \A token \in Range(tokenize_ar(query)) :
            normalize_ar(t) # normalize_ar(token)

\* C14: the list expand_terms_from_glossary returns has no term twice and
\* at most 50 terms.
C14_ExpansionUniqueCapped ==
    pc \in PastExpand =>
        /\ Len(green_terms) <= ExpansionCap
        /\ \A x, y \in DOMAIN green_terms :
               x # y => green_terms[x] # green_terms[y]

\* the matching entries gave more than 50 terms, some of them more than
\* once, and the expansion holds 50
C14_Witness ==
    /\ pc = "done"
    /\ Len(green_terms) = ExpansionCap
    /\ LET collected == glossary_expanded(query, glossary)
       IN /\ Cardinality(Range(collected)) > ExpansionCap
          /\ Cardinality(Range(collected)) < Len(collected)

\* one string is a substring of the other
EitherIn(u, t) == Contains(u, t) \/ Contains(t, u)

\* rule a: a query token and the normalized main term
RuleA(entry) ==
    \E token \in Range(tokenize_ar(query)) :
        EitherIn(normalize_ar(entry.main), token)

\* rule b: a query token and a normalized synonym
RuleB(entry) ==
    \E token \in Range(tokenize_ar(query)) : \E q \in DOMAIN entry.syns :
        EitherIn(normalize_ar(entry.syns[q]), token)

\* rule c: for a query of more than 4 characters, the lower-cased query
\* and the main term or a synonym (compared in lower case, as the code
\* compares them)
RuleC(entry) ==
    /\ Len(Lower(Strip(query))) > 4
    /\ \/ EitherIn(Lower(entry.main), Lower(Strip(query)))
       \/ \E q \in DOMAIN entry.syns :
              EitherIn(Lower(entry.syns[q]), Lower(Strip(query)))

\* the entry's main term and synonyms are in the collected terms
Collected(entry) ==
    LET expanded == Range(glossary_expanded(query, glossary))
    IN entry.main \in expanded /\ Range(entry.syns) \subseteq expanded

\* C15: an entry of the glossary contributes to the expansion exactly when
\* one of the rules a, b, c holds of it, and then its main term and all
\* its synonyms are collected.
C15_MatchingRules ==
    pc \in PastExpand =>
        \A q \in DOMAIN glossary :
            /\ entry_matches(query, glossary[q])
                   <=> (RuleA(glossary[q]) \/ RuleB(glossary[q]) \/ RuleC(glossary[q]))
            /\ entry_matches(query, glossary[q]) => Collected(glossary[q])

\* the words highlight_text marked as direct matches (lines 137-139) in an
\* excerpt: what stands between the opening tag of the class and the end
\* of its title
YellowWords(excerpt) ==
    { SubSeq(excerpt, i + 1, j - 1) :
        <<i, j>> \in { p \in (DOMAIN excerpt) \X (DOMAIN excerpt) :
                          /\ excerpt[p[1]] = OpenTag("Y")
                          /\ p[1] < p[2]
                          /\ excerpt[p[2]] = ">"
                          /\ \A k \in (p[1] + 1)..(p[2] - 1) : excerpt[k] # ">" } }

\* the word is text of the query: a part of it, letter case and the
\* spelling variants normalize_ar folds apart
DrawnFromQuery(w) ==
    Contains(normalize_ar(Lower(query)), normalize_ar(Lower(w)))

\* C16: glossary terms are never highlighted as literal.  Every span of a
\* returned excerpt that is marked as a direct match is text of the query.
C16_LiteralSpansFromQuery ==
    \A r \in DOMAIN results : \A w \in YellowWords(results[r].excerpt) :
        DrawnFromQuery(w)

\* C17: the stages of a query run in order, and a candidate passes the
\* whole access filter before it is highlighted and assembled.  The entries
\* of results are the candidates search has highlighted and assembled
\* (lines 322-336): each is of a chunk that both gates admit.  The case of
\* a requester with no effective role is C1's, and is left out here.
C17_FilterBeforeHighlight ==
    effective_roles # {} =>
        \A q \in DOMAIN results : Admit(ChunkOf(results[q]))

\* C18: the fallback answer.  When the response has no citation its answer
\* is the one fixed message of line 341, and when it has citations its
\* answer is the annotated excerpt of a search result.
C18_FallbackAnswer ==
    pc = "done" =>
        /\ filtered_results = <<>> => answer = NO_RESULT
        /\ filtered_results # <<>> =>
               \E q \in DOMAIN results : answer = results[q].excerpt

\* the chunk at position idx of the collection has no lexical hit (its
\* BM25 score is 0) and no dense hit (the dense search did not return it)
ZeroRelevance(idx) ==
    /\ At(bm25_scores, idx) = 0
    /\ idx \notin Range(faiss_hits.I)

\* C19: a chunk with zero relevance is not returned.  No search result is
\* of a chunk without lexical and dense hit, and when no chunk has a hit
\* the answer of search is the fallback message.
C19_ZeroRelevanceExcluded ==
    pc \in PastFilter =>
        /\ \A q \in DOMAIN results : ~ZeroRelevance(results[q].article_no)
        /\ (\A idx \in 0..(NChunks - 1) : ZeroRelevance(idx))
               => results = <<>> /\ answer_html = NO_RESULT

\* C20: invalid parameters are rejected before any scoring.  The scorers
\* are asked (line 294 on) only for a topk that is not negative, an alpha
\* in [0, 1] and a query that is not empty.
C20_InvalidParameterRejected ==
    pc \notin {"start", "tokenize", "expand", "yellow", "score"} =>
        /\ topk >= 0
        /\ 0 <= alpha_num /\ alpha_num <= AlphaDen
        /\ query # <<>>

\* the positions of the collection the loop of lines 312-339 has been at
Visited ==
    { At(cand_ids, order[p]) : p \in 1..(loop_pos - 1) }

\* C21: a chunk without roles field permits all roles.  Every such chunk
\* the loop has been at is among the results, for every requester; and a
\* result made from a chunk without pages carries the chunk's page_start
\* and page_end.
C21_MissingRolesPermitAll ==
    pc \in PastCombine =>
        \A idx \in Visited :
            LET chunk == PyAt(meta, idx)
            IN /\ "roles" \notin DOMAIN chunk =>
                      \E q \in DOMAIN results : results[q].article_no = idx
               /\ "pages" \notin DOMAIN chunk =>
                      \A q \in DOMAIN results :
                          results[q].article_no = idx =>
                              /\ results[q].page_start = <<chunk.page_start>>
                              /\ results[q].page_end = <<chunk.page_end>>

\* C22: normalization is idempotent.  normalize_ar of what normalize_ar
\* returned is that same string, and the tokens of the normalized string
\* are the tokens of the string.
C22_NormalizeIdempotent ==
    /\ n_pc \in {"digits", "tokens", "done"} => n_again = n_norm
    /\ n_pc = "done" => n_tokens_norm = n_tokens

\* a string normalize_ar changes, with a token in it
C22_Witness ==
    /\ n_pc = "done"
    /\ n_norm # n_s
    /\ n_tokens # <<>>
    /\ Len(n_norm) < Len(n_s)
    /\ \E i \in DOMAIN n_norm : n_norm[i] = "U+0627" /\ "U+0627" \notin Range(n_s)

\* the value of a digit of one of the three kinds
DigitValue(c) ==
    CHOOSE v \in 0..9 :
        c \in {AsciiDigits[v + 1], _ARABIC_DIGITS[v + 1], _EXT_ARABIC_DIGITS[v + 1]}

NativeDigits == Range(_ARABIC_DIGITS) \cup Range(_EXT_ARABIC_DIGITS)

\* C23: digit conversion is total.  to_western_digits keeps the length,
\* puts the ASCII digit of the same value at the place of every
\* Arabic-Indic and Extended Arabic-Indic digit, and keeps every other
\* character at its place.
C23_DigitConversionTotal ==
    n_pc \in {"tokens", "done"} =>
        /\ Len(n_western) = Len(n_s)
        /\ \A i \in DOMAIN n_s :
               IF n_s[i] \in NativeDigits
               THEN n_western[i] = AsciiDigits[DigitValue(n_s[i]) + 1]
               ELSE n_western[i] = n_s[i]

\* a string with digits of both native kinds and of two values, and
\* another character
C23_Witness ==
    /\ n_pc = "done"
    /\ "U+06F3" \in Range(n_s) /\ "U+0660" \in Range(n_s)
    /\ "U+0623" \in Range(n_s)
    /\ n_western # n_s

\* C24: ranking determinism.  The second call of search with the same
\* arguments against the same files returns what the first call returned:
\* the same results with the same ranks, scores and excerpts, and the same
\* answer.
C24_RankingDeterminism ==
    (pc \in {"filter", "respond", "done"} /\ first_out # NoOutput)
        => search_out = first_out

\* what request A was answered, once it is done: running or stopped
DoneOutA ==
    IF who = "A" /\ pc = "done" THEN ask_out
    ELSE IF parked # <<>> /\ parked[1].who = "A" /\ parked[1].pc = "done"
    THEN <<[answer |-> parked[1].answer, citations |-> parked[1].filtered_results]>>
    ELSE NoOutput

\* C25: concurrent queries are safe.  No step changes the chunk collection,
\* the index data or the glossary file, and a request that runs interleaved
\* with another one is answered what it was answered when it ran alone.
C25_ConcurrentQueriesSafe ==
    /\ [](first_out # NoOutput /\ DoneOutA # NoOutput => DoneOutA = first_out)
    /\ [][UNCHANGED <<meta, bm25_scores, faiss_hits, glossary_file>>]_vars

\* both requests are in the middle of the loop of search, each with a
\* result, for different requesters
C25_Witness ==
    /\ parked # <<>>
    /\ pc = "loop" /\ parked[1].pc = "loop"
    /\ results # <<>> /\ parked[1].results # <<>>
    /\ effective_roles # parked[1].effective_roles

\* highlight_text is past its second pass
PastGreen == {"fallback", "resolve", "apply", "done"}

\* the related term is, normalized, a literal term
IsLiteral(term) ==
    \E y \in DOMAIN all_yellow_terms :
        normalize_ar(term) = normalize_ar(all_yellow_terms[y])

\* the occurrences of related terms that are no literal terms
RelatedOccurrences ==
    UNION { Range(term_matches(h_text, all_green_terms[g])) :
              g \in {x \in DOMAIN all_green_terms : ~IsLiteral(all_green_terms[x])} }

OverlapsLiteral(m) ==
    \E y \in DOMAIN yellow_positions : Overlaps(m, yellow_positions[y])

\* C26: the literal class wins over the related class.  The second pass
\* records an occurrence of a related term only where it overlaps no
\* recorded literal span, and records nothing for a related term that is,
\* normalized, a literal term; in the output no related-class marker
\* overlaps a literal span.
C26_LiteralWins ==
    /\ h_pc = "fallback" =>
           /\ \A g \in DOMAIN green_positions :
                  /\ ~OverlapsLiteral(green_positions[g])
                  /\ green_positions[g] \in RelatedOccurrences
           /\ \A m \in RelatedOccurrences :
                  ~OverlapsLiteral(m) =>
                      \E g \in DOMAIN green_positions :
                          green_positions[g].s = m.s /\ green_positions[g].e = m.e
    /\ h_pc \in PastGreen =>
           \A g \in DOMAIN green_positions : ~OverlapsLiteral(green_positions[g])
    /\ h_pc = "done" =>
           \A x \in DOMAIN filtered_highlights :
               filtered_highlights[x].cls = "G" =>
                   ~OverlapsLiteral(filtered_highlights[x])

\* a related term is marked, an occurrence of a related term was left out
\* for overlapping a literal span, and a related term was skipped for
\* being a literal term
C26_Witness ==
    /\ h_pc = "done"
    /\ yellow_positions # <<>>
    /\ \E x \in DOMAIN filtered_highlights : filtered_highlights[x].cls = "G"
    /\ \E m \in RelatedOccurrences : OverlapsLiteral(m)
    /\ \E g \in DOMAIN all_green_terms : IsLiteral(all_green_terms[g])

\* the spans highlight_text recorded: the literal ones, then the related
Recorded == all_highlights_of(yellow_positions, green_positions)

IsKept(q) == \E x \in DOMAIN filtered_highlights : filtered_highlights[x] = Recorded[q]

\* span x is considered before span q: it is longer, or as long and
\* recorded earlier
ConsideredBefore(x, q) ==
    \/ SpanLen(Recorded[x]) > SpanLen(Recorded[q])
    \/ (SpanLen(Recorded[x]) = SpanLen(Recorded[q]) /\ x < q)

\* C27: the overlap resolution is greedy, longest first.  A recorded span
\* is dropped exactly when it overlaps a kept span considered before it;
\* so every dropped span overlaps a kept span at least as long, and a span
\* that overlaps no other recorded span is kept.
C27_GreedyLongestFirst ==
    h_pc \in {"apply", "done"} =>
        /\ \A x \in DOMAIN filtered_highlights :
               \E q \in DOMAIN Recorded : filtered_highlights[x] = Recorded[q]
        /\ \A q \in DOMAIN Recorded :
               /\ ~IsKept(q) <=>
                      \E x \in DOMAIN Recorded :
                          /\ ConsideredBefore(x, q) /\ IsKept(x)
                          /\ Overlaps(Recorded[x], Recorded[q])
               /\ ~IsKept(q) =>
                      \E x \in DOMAIN filtered_highlights :
                          /\ Overlaps(filtered_highlights[x], Recorded[q])
                          /\ SpanLen(filtered_highlights[x]) >= SpanLen(Recorded[q])
               /\ (\A x \in DOMAIN Recorded \ {q} : ~Overlaps(Recorded[x], Recorded[q]))
                      => IsKept(q)

\* a span was dropped for a longer one, another for one of its own length
\* recorded before it, and a span is kept that overlaps a dropped one
C27_Witness ==
    /\ h_pc = "done"
    /\ \E q, x \in DOMAIN Recorded :
           /\ ~IsKept(q) /\ IsKept(x) /\ Overlaps(Recorded[x], Recorded[q])
           /\ SpanLen(Recorded[x]) > SpanLen(Recorded[q])
    /\ \E q, x \in DOMAIN Recorded :
           /\ ~IsKept(q) /\ IsKept(x) /\ Overlaps(Recorded[x], Recorded[q])
           /\ SpanLen(Recorded[x]) = SpanLen(Recorded[q]) /\ x < q

\* C28: the answer carries no text of a removed result.  The answer of the
\* response is one of the two fixed messages or the excerpt of the first
\* citation of the response.
C28_AnswerFromDelivered ==
    pc = "done" =>
        \/ answer \in {NO_RESULT, NO_ACCESS}
        \/ filtered_results # <<>> /\ answer = filtered_results[1].excerpt

\* C29: the candidates are positions of the collection.  Every identifier
\* in cand_ids is a position 0 .. number of chunks - 1, and no chunk is
\* in the results twice; also when bm25_k or vec_k is larger than the
\* number of chunks.
C29_CandidatesValid ==
    pc \in PastCombine =>
        /\ \A c \in DOMAIN cand_ids : cand_ids[c] \in 0..(Len(meta) - 1)
        /\ \A q, r \in DOMAIN results :
               q # r => results[q].article_no # results[r].article_no

\* the three files search is given are there
IndicesBuilt == bm25_pkl # Absent /\ mE5_faiss # Absent /\ meta_json # Absent

\* C30: the metadata list, the lexical index and the vector index cover
\* the same chunks at the same positions, after any sequence of the
\* ingestion steps.
C30_IndicesAligned ==
    IndicesBuilt => bm25_pkl = meta_json /\ mE5_faiss = meta_json

====
